---- MODULE Spec2Model ----
(***************************************************************************)
(* LexiYaar: clause classification and reconciliation (classifier.ts,      *)
(* gemini-ai.ts) and the language-adaptive scan pipeline (ScanPage.tsx,    *)
(* ocr.ts).                                                                *)
(*                                                                         *)
(* Strings that the code inspects character by character (document text,   *)
(* clause text) are tuples of one-character strings.  Strings that the     *)
(* code only builds by template literals (reason, summary) are tuples of   *)
(* fragments.  Confidences and rule scores are in thousandths, so that     *)
(* 0.9 * 0.7 is the integer 630.  An optional JSON member is a tuple of    *)
(* length at most one: << >> when the member is absent.                    *)
(***************************************************************************)
EXTENDS Integers, Sequences, FiniteSets, TLC

(***************************************************************************)
(* Bounds of the model.                                                    *)
(***************************************************************************)
MaxLines == 2
MaxRemoteClauses == 2

(***************************************************************************)
(* Document lines and remote clause texts used as inputs.                  *)
(***************************************************************************)
\* "The security deposit shall be forfeited if the tenant vacates; non-refundable deposit."
LineA ==
  <<
     "T", "h", "e", " ", "s", "e", "c", "u", "r", "i", "t", "y", " ", "d",
     "e", "p", "o", "s", "i", "t", " ", "s", "h", "a", "l", "l", " ", "b",
     "e", " ", "f", "o", "r", "f", "e", "i", "t", "e", "d", " ", "i", "f",
     " ", "t", "h", "e", " ", "t", "e", "n", "a", "n", "t", " ", "v", "a",
     "c", "a", "t", "e", "s", ";", " ", "n", "o", "n", "-", "r", "e", "f",
     "u", "n", "d", "a", "b", "l", "e", " ", "d", "e", "p", "o", "s", "i",
     "t", "." >>

\* "The security deposit shall be forfeited if the tenant damages the walls."
LineB ==
  <<
     "T", "h", "e", " ", "s", "e", "c", "u", "r", "i", "t", "y", " ", "d",
     "e", "p", "o", "s", "i", "t", " ", "s", "h", "a", "l", "l", " ", "b",
     "e", " ", "f", "o", "r", "f", "e", "i", "t", "e", "d", " ", "i", "f",
     " ", "t", "h", "e", " ", "t", "e", "n", "a", "n", "t", " ", "d", "a",
     "m", "a", "g", "e", "s", " ", "t", "h", "e", " ", "w", "a", "l", "l",
     "s", "." >>

\* "Deposit conditions apply; annual rent increase: rent is increased on annual basis."
LineC ==
  <<
     "D", "e", "p", "o", "s", "i", "t", " ", "c", "o", "n", "d", "i", "t",
     "i", "o", "n", "s", " ", "a", "p", "p", "l", "y", ";", " ", "a", "n",
     "n", "u", "a", "l", " ", "r", "e", "n", "t", " ", "i", "n", "c", "r",
     "e", "a", "s", "e", ":", " ", "r", "e", "n", "t", " ", "i", "s", " ",
     "i", "n", "c", "r", "e", "a", "s", "e", "d", " ", "o", "n", " ", "a",
     "n", "n", "u", "a", "l", " ", "b", "a", "s", "i", "s", "." >>

\* "Rent is payable monthly."
LineE ==
  <<
     "R", "e", "n", "t", " ", "i", "s", " ", "p", "a", "y", "a", "b", "l",
     "e", " ", "m", "o", "n", "t", "h", "l", "y", "." >>

\* "The security deposit of Rs. 50,000 will be forfeited if tenant vacates early."
LineS ==
  <<
     "T", "h", "e", " ", "s", "e", "c", "u", "r", "i", "t", "y", " ", "d",
     "e", "p", "o", "s", "i", "t", " ", "o", "f", " ", "R", "s", ".", " ",
     "5", "0", ",", "0", "0", "0", " ", "w", "i", "l", "l", " ", "b", "e",
     " ", "f", "o", "r", "f", "e", "i", "t", "e", "d", " ", "i", "f", " ",
     "t", "e", "n", "a", "n", "t", " ", "v", "a", "c", "a", "t", "e", "s",
     " ", "e", "a", "r", "l", "y", "." >>

\* "THE  SECURITY deposit shall be forfeited"
RemoteTextUpper ==
  <<
     "T", "H", "E", " ", " ", "S", "E", "C", "U", "R", "I", "T", "Y", " ",
     "d", "e", "p", "o", "s", "i", "t", " ", "s", "h", "a", "l", "l", " ",
     "b", "e", " ", "f", "o", "r", "f", "e", "i", "t", "e", "d" >>

\* "Tenant shall pay all utilities."
RemoteTextOutside ==
  <<
     "T", "e", "n", "a", "n", "t", " ", "s", "h", "a", "l", "l", " ", "p",
     "a", "y", " ", "a", "l", "l", " ", "u", "t", "i", "l", "i", "t", "i",
     "e", "s", "." >>

\* "The notice period is to be agreed between the parties."
LineK ==
  <<
     "T", "h", "e", " ", "n", "o", "t", "i", "c", "e", " ", "p", "e", "r",
     "i", "o", "d", " ", "i", "s", " ", "t", "o", " ", "b", "e", " ", "a",
     "g", "r", "e", "e", "d", " ", "b", "e", "t", "w", "e", "e", "n", " ",
     "t", "h", "e", " ", "p", "a", "r", "t", "i", "e", "s", "." >>

\* "The security deposit shall be forfeited and the deposit shall not be returned; deposit adjustment against rent."
LineM ==
  <<
     "T", "h", "e", " ", "s", "e", "c", "u", "r", "i", "t", "y", " ", "d",
     "e", "p", "o", "s", "i", "t", " ", "s", "h", "a", "l", "l", " ", "b",
     "e", " ", "f", "o", "r", "f", "e", "i", "t", "e", "d", " ", "a", "n",
     "d", " ", "t", "h", "e", " ", "d", "e", "p", "o", "s", "i", "t", " ",
     "s", "h", "a", "l", "l", " ", "n", "o", "t", " ", "b", "e", " ", "r",
     "e", "t", "u", "r", "n", "e", "d", ";", " ", "d", "e", "p", "o", "s",
     "i", "t", " ", "a", "d", "j", "u", "s", "t", "m", "e", "n", "t", " ",
     "a", "g", "a", "i", "n", "s", "t", " ", "r", "e", "n", "t", "." >>


\* "The security deposit shall be forfeited if the tenant sublets the flat."
LineN ==
  <<
     "T", "h", "e", " ", "s", "e", "c", "u", "r", "i", "t", "y", " ", "d",
     "e", "p", "o", "s", "i", "t", " ", "s", "h", "a", "l", "l", " ", "b",
     "e", " ", "f", "o", "r", "f", "e", "i", "t", "e", "d", " ", "i", "f",
     " ", "t", "h", "e", " ", "t", "e", "n", "a", "n", "t", " ", "s", "u",
     "b", "l", "e", "t", "s", " ", "t", "h", "e", " ", "f", "l", "a", "t",
     "." >>

\* "A non-refundable deposit is payable subject to the terms below."
LineH ==
  <<
     "A", " ", "n", "o", "n", "-", "r", "e", "f", "u", "n", "d", "a", "b",
     "l", "e", " ", "d", "e", "p", "o", "s", "i", "t", " ", "i", "s", " ",
     "p", "a", "y", "a", "b", "l", "e", " ", "s", "u", "b", "j", "e", "c",
     "t", " ", "t", "o", " ", "t", "h", "e", " ", "t", "e", "r", "m", "s",
     " ", "b", "e", "l", "o", "w", "." >>

\* "The security deposit shall be forfeited and shall not be returned; deposit conditions cover damages and wear and tear."
LineT ==
  <<
     "T", "h", "e", " ", "s", "e", "c", "u", "r", "i", "t", "y", " ", "d",
     "e", "p", "o", "s", "i", "t", " ", "s", "h", "a", "l", "l", " ", "b",
     "e", " ", "f", "o", "r", "f", "e", "i", "t", "e", "d", " ", "a", "n",
     "d", " ", "s", "h", "a", "l", "l", " ", "n", "o", "t", " ", "b", "e",
     " ", "r", "e", "t", "u", "r", "n", "e", "d", ";", " ", "d", "e", "p",
     "o", "s", "i", "t", " ", "c", "o", "n", "d", "i", "t", "i", "o", "n",
     "s", " ", "c", "o", "v", "e", "r", " ", "d", "a", "m", "a", "g", "e",
     "s", " ", "a", "n", "d", " ", "w", "e", "a", "r", " ", "a", "n", "d",
     " ", "t", "e", "a", "r", "." >>
(***************************************************************************)
(* JavaScript string primitives.                                           *)
(***************************************************************************)
Min(a, b) == IF a < b THEN a ELSE b

UpperChars ==
  << "A", "B", "C", "D", "E", "F", "G", "H", "I", "J", "K", "L", "M",
     "N", "O", "P", "Q", "R", "S", "T", "U", "V", "W", "X", "Y", "Z" >>

LowerChars ==
  << "a", "b", "c", "d", "e", "f", "g", "h", "i", "j", "k", "l", "m",
     "n", "o", "p", "q", "r", "s", "t", "u", "v", "w", "x", "y", "z" >>

\* the lower-case form of every upper-case letter
LowerOf == [c \in {UpperChars[i] : i \in DOMAIN UpperChars} |->
              LowerChars[CHOOSE i \in DOMAIN UpperChars : UpperChars[i] = c]]

ToLowerChar(c) == IF c \in DOMAIN LowerOf THEN LowerOf[c] ELSE c

\* String.prototype.toLowerCase
ToLowerCase(s) == [i \in 1..Len(s) |-> ToLowerChar(s[i])]

\* the class \s of a regular expression
IsSpace(c) == c \in {" ", "\t", "\n"}

\* the elements of s at the indices lo..hi that are in keep, in order
RECURSIVE PickRange(_, _, _, _)
PickRange(s, keep, lo, hi) ==
  IF lo > hi THEN << >>
  ELSE IF lo = hi THEN (IF lo \in keep THEN <<s[lo]>> ELSE << >>)
  ELSE LET mid == (lo + hi) \div 2
       IN  PickRange(s, keep, lo, mid) \o PickRange(s, keep, mid + 1, hi)

\* s.replace(/\s+/g, ' '): every run of white space becomes one blank
CollapseSpaces(s) ==
  LET blanked == [i \in DOMAIN s |-> IF IsSpace(s[i]) THEN " " ELSE s[i]]
      keep    == {i \in DOMAIN s : ~ IsSpace(s[i]) \/ i = 1 \/ ~ IsSpace(s[i - 1])}
  IN  PickRange(blanked, keep, 1, Len(s))

\* the least index >= i of s that holds no white space, Len(s) + 1 if none
RECURSIVE FirstSolid(_, _)
FirstSolid(s, i) ==
  IF i > Len(s) THEN i ELSE IF IsSpace(s[i]) THEN FirstSolid(s, i + 1) ELSE i

\* the greatest index <= i of s that holds no white space, 0 if none
RECURSIVE LastSolid(_, _)
LastSolid(s, i) ==
  IF i < 1 THEN i ELSE IF IsSpace(s[i]) THEN LastSolid(s, i - 1) ELSE i

\* String.prototype.trim
Trim(s) == SubSeq(s, FirstSolid(s, 1), LastSolid(s, Len(s)))

\* s.substring(from, to) for 0 <= from <= to
Substring(s, from, to) == SubSeq(s, from + 1, Min(to, Len(s)))

\* needle occurs in hay at the 0-based index i
OccursAt(hay, needle, i) == \A k \in DOMAIN needle : hay[i + k] = needle[k]

\* hay.includes(needle)
Includes(hay, needle) == \E i \in 0..(Len(hay) - Len(needle)) : OccursAt(hay, needle, i)

\* hay.indexOf(needle): the first index, -1 when there is none
IndexOf(hay, needle) ==
  LET found == {i \in 0..(Len(hay) - Len(needle)) : OccursAt(hay, needle, i)}
  IN  IF found = {} THEN 0 - 1 ELSE CHOOSE i \in found : \A j \in found : i <= j

\* s.split('\n'): always at least one piece
RECURSIVE SplitLines(_)
SplitLines(s) ==
  LET breaks == {i \in DOMAIN s : s[i] = "\n"}
  IN  IF breaks = {} THEN <<s>>
      ELSE LET i == CHOOSE k \in breaks : \A j \in breaks : k <= j
           IN  <<SubSeq(s, 1, i - 1)>> \o SplitLines(SubSeq(s, i + 1, Len(s)))

\* lines.join('\n')
RECURSIVE JoinLines(_)
JoinLines(lines) ==
  IF lines = << >> THEN << >>
  ELSE IF Len(lines) = 1 THEN lines[1]
  ELSE lines[1] \o <<"\n">> \o JoinLines(Tail(lines))

RECURSIVE SelectSeqIdx(_, _)
\* the elements of s whose index is in keep, in order
SelectSeqIdx(s, keep) ==
  IF s = << >> THEN << >>
  ELSE SelectSeqIdx(SubSeq(s, 1, Len(s) - 1), keep)
         \o (IF Len(s) \in keep THEN <<s[Len(s)]>> ELSE << >>)

\* Math.round(num / den) for num >= 0, den > 0: halves round up
RoundDiv(num, den) == (2 * num + den) \div (2 * den)

\* Array.prototype.sort with (a, b) => b[field] - a[field]: stable, descending
RECURSIVE SortDescBy(_, _)
SortDescBy(s, field) ==
  IF s = << >> THEN << >>
  ELSE LET x      == s[Len(s)]
           sorted == SortDescBy(SubSeq(s, 1, Len(s) - 1), field)
           before == {i \in DOMAIN sorted : sorted[i][field] >= x[field]}
           n      == Cardinality(before)
       IN  SubSeq(sorted, 1, n) \o <<x>> \o SubSeq(sorted, n + 1, Len(sorted))

Undefined == "undefined"

(***************************************************************************)
(* classifier.ts: the rule set.  patterns and keywords are the numbers of  *)
(* regular expressions and of keywords of the rule; weightedScore is in    *)
(* thousandths.                                                            *)
(***************************************************************************)
CLASSIFICATION_RULES ==
  << [type |-> "security_deposit", patterns |-> 4, keywords |-> 3, riskLevel |-> "high",
      weightedScore |-> 900, reason |-> "Unfair security deposit forfeiture or deduction clause"],
     [type |-> "security_deposit", patterns |-> 3, keywords |-> 3, riskLevel |-> "medium",
      weightedScore |-> 600, reason |-> "Vague or ambiguous security deposit terms"],
     [type |-> "rent_hike", patterns |-> 4, keywords |-> 3, riskLevel |-> "high",
      weightedScore |-> 850, reason |-> "Arbitrary or excessive rent increase provision"],
     [type |-> "rent_hike", patterns |-> 3, keywords |-> 2, riskLevel |-> "medium",
      weightedScore |-> 500, reason |-> "Potential for regular rent increases"],
     [type |-> "lock_in_penalty", patterns |-> 4, keywords |-> 3, riskLevel |-> "high",
      weightedScore |-> 800, reason |-> "Harsh lock-in period with heavy penalties"],
     [type |-> "lock_in_penalty", patterns |-> 3, keywords |-> 3, riskLevel |-> "medium",
      weightedScore |-> 400, reason |-> "Standard lock-in terms that may limit flexibility"] >>

\* The regular expressions and keywords of the rule set that match each
\* input line: <<rule, "pattern" | "keyword", index within the rule>>.
RegexHits(text) ==
  CASE text = LineA -> {<<1, "pattern", 1>>, <<1, "keyword", 2>>}
    [] text = LineB -> {<<1, "pattern", 1>>, <<2, "pattern", 2>>}
    [] text = LineC -> {<<2, "pattern", 1>>, <<2, "keyword", 1>>,
                        <<4, "pattern", 1>>, <<4, "keyword", 1>>}
    [] text = LineS -> {<<1, "pattern", 1>>}
    [] text = LineK -> {<<6, "keyword", 2>>}
    [] text = LineM -> {<<1, "pattern", 1>>, <<1, "pattern", 2>>, <<1, "pattern", 3>>,
                        <<1, "keyword", 3>>}
    [] text = LineN -> {<<1, "pattern", 1>>}
    [] text = LineH -> {<<1, "keyword", 2>>, <<2, "pattern", 1>>}
    [] text = LineT -> {<<1, "pattern", 1>>, <<1, "pattern", 2>>, <<2, "pattern", 1>>,
                        <<2, "pattern", 2>>, <<2, "keyword", 1>>, <<2, "keyword", 2>>}
    [] OTHER -> {}

\* pattern.test(text) / regex.test(text)
RegexTest(rule, kind, idx, text) == <<rule, kind, idx>> \in RegexHits(text)

PatternShare == 7
KeywordShare == 3
ScoreThreshold == 200
ScoreCap == 1000

\* findMatchingRules without the cap on the score
FindMatchingRules_NoCap(text) ==
  LET Score(r) ==
        LET rule == CLASSIFICATION_RULES[r]
            np == Cardinality({p \in 1..rule.patterns : RegexTest(r, "pattern", p, text)})
            nk == Cardinality({k \in 1..rule.keywords : RegexTest(r, "keyword", k, text)})
        IN  [matchCount |-> np + nk,
             score |-> np * ((rule.weightedScore * PatternShare) \div 10)
                       + nk * ((rule.weightedScore * KeywordShare) \div 10)]
      keep == {r \in DOMAIN CLASSIFICATION_RULES :
                 Score(r).matchCount > 0 /\ Score(r).score > ScoreThreshold}
      matches == [r \in DOMAIN CLASSIFICATION_RULES |->
                    [rule |-> r, score |-> Score(r).score]]
  IN  SortDescBy(SelectSeqIdx(matches, keep), "score")

FindMatchingRules(text) ==
  LET Score(r) ==
        LET rule == CLASSIFICATION_RULES[r]
            np == Cardinality({p \in 1..rule.patterns : RegexTest(r, "pattern", p, text)})
            nk == Cardinality({k \in 1..rule.keywords : RegexTest(r, "keyword", k, text)})
        IN  [matchCount |-> np + nk,
             score |-> np * ((rule.weightedScore * PatternShare) \div 10)
                       + nk * ((rule.weightedScore * KeywordShare) \div 10)]
      keep == {r \in DOMAIN CLASSIFICATION_RULES :
                 Score(r).matchCount > 0 /\ Score(r).score > ScoreThreshold}
      matches == [r \in DOMAIN CLASSIFICATION_RULES |->
                    [rule |-> r, score |-> Min(Score(r).score, ScoreCap)]]
  IN  SortDescBy(SelectSeqIdx(matches, keep), "score")

\* generateId(): the k-th identifier drawn in a run whose random source is seed
GenerateId(seed, k) == seed + k

PrefixLen == 50

DedupKey(result) == <<result.type, Substring(result.text, 0, PrefixLen)>>

\* deduplicateResults without the sort: the first candidate seen is kept
DeduplicateResults_FirstSeen(results) ==
  LET first == {i \in DOMAIN results :
                  \A j \in 1..(i - 1) : DedupKey(results[j]) # DedupKey(results[i])}
  IN  SelectSeqIdx(results, first)

\* deduplicateResults with a sort that reverses candidates of equal confidence
DeduplicateResults_Unstable(results) ==
  LET sorted == SortDescBy([i \in DOMAIN results |-> results[Len(results) + 1 - i]],
                           "confidence")
      first  == {i \in DOMAIN sorted :
                   \A j \in 1..(i - 1) : DedupKey(sorted[j]) # DedupKey(sorted[i])}
  IN  SelectSeqIdx(sorted, first)

\* deduplicateResults that puts the high-risk candidates first
DeduplicateResults_ByRisk(results) ==
  LET byScore == SortDescBy(results, "confidence")
      high    == {i \in DOMAIN byScore : byScore[i].riskLevel = "high"}
      sorted  == SelectSeqIdx(byScore, high) \o SelectSeqIdx(byScore, DOMAIN byScore \ high)
      first   == {i \in DOMAIN sorted :
                    \A j \in 1..(i - 1) : DedupKey(sorted[j]) # DedupKey(sorted[i])}
  IN  SelectSeqIdx(sorted, first)

DeduplicateResults(results) ==
  LET sorted == SortDescBy(results, "confidence")
      first  == {i \in DOMAIN sorted :
                   \A j \in 1..(i - 1) : DedupKey(sorted[j]) # DedupKey(sorted[i])}
  IN  SelectSeqIdx(sorted, first)

RECURSIVE ClassifyParagraphs(_, _, _, _)
\* the forEach of classifyText from paragraph number index on (0-based),
\* drawn identifiers so far: drawn
ClassifyParagraphs(paragraphs, index, seed, drawn) ==
  IF index >= Len(paragraphs) THEN << >>
  ELSE LET paragraph    == paragraphs[index + 1]
           matchedRules == FindMatchingRules(paragraph)
           results == [m \in DOMAIN matchedRules |->
                         [id         |-> GenerateId(seed, drawn + m - 1),
                          text       |-> paragraph,
                          type       |-> CLASSIFICATION_RULES[matchedRules[m].rule].type,
                          confidence |-> matchedRules[m].score,
                          riskLevel  |-> CLASSIFICATION_RULES[matchedRules[m].rule].riskLevel,
                          reason     |-> <<CLASSIFICATION_RULES[matchedRules[m].rule].reason>>,
                          legalBasis |-> Undefined,
                          suggestion |-> Undefined,
                          position   |-> [x |-> 0, y |-> index * 50, width |-> 100, height |-> 40]]]
       IN  results \o ClassifyParagraphs(paragraphs, index + 1, seed, drawn + Len(matchedRules))

ClassifyText(paragraphs, seed, drawn) ==
  DeduplicateResults(ClassifyParagraphs(paragraphs, 0, seed, drawn))

(***************************************************************************)
(* gemini-ai.ts: the remote analysis client.                               *)
(***************************************************************************)
GovernmentTypes == {"india", "us", "general"}

\* type?.toLowerCase() for the type strings the replies of the model use
TypeToLowerCase(type) == IF type = "Rent_Hike" THEN "rent_hike" ELSE type

MapToClauseType(type) ==
  LET t == TypeToLowerCase(type)
  IN  CASE t \in {"security_deposit", "rent_hike", "lock_in_penalty"} -> t
        [] t \in {"termination", "maintenance", "utilities", "subletting", "other"} -> "other"
        [] OTHER -> "other"

\* truthiness of a string member that may be absent
Truthy(s) == s # Undefined /\ s # ""

CalculateConfidence(clause) ==
  LET confidence == 500
                    + (IF Truthy(clause.legalBasis) THEN 200 ELSE 0)
                    + (IF Truthy(clause.suggestion) THEN 100 ELSE 0)
                    + (IF clause.riskLevel = "high" THEN 150
                       ELSE IF clause.riskLevel = "medium" THEN 50 ELSE 0)
  IN  Min(confidence, 1000)

\* clause.text || '' and clauseText?.toLowerCase() || ''
TextOrEmpty(opt) == IF opt = << >> THEN << >> ELSE opt[1]

FindTextPosition(clauseText, fullText) ==
  LET index      == IndexOf(ToLowerCase(fullText), ToLowerCase(TextOrEmpty(clauseText)))
      before     == Substring(fullText, 0, IF index < 0 THEN 0 ELSE index)
      lineNumber == Len(SplitLines(before))
  IN  [x |-> 0, y |-> lineNumber * 20, width |-> 100, height |-> 40]

RECURSIVE SumSeq(_)
SumSeq(s) == IF s = << >> THEN 0 ELSE Head(s) + SumSeq(Tail(s))

CalculateOverallRisk(clauses) ==
  IF Len(clauses) = 0 THEN 0
  ELSE LET totalRisk == SumSeq([i \in DOMAIN clauses |->
                          clauses[i].confidence
                            * (IF clauses[i].riskLevel = "high" THEN 3
                               ELSE IF clauses[i].riskLevel = "medium" THEN 2 ELSE 1)
                            * 10])
       IN  Min(RoundDiv(totalRisk * 10, 1000 * Len(clauses)), 100)

CountRisk(clauses, level) == Cardinality({i \in DOMAIN clauses : clauses[i].riskLevel = level})

GovernmentToUpperCase(governmentType) ==
  CASE governmentType = "india" -> "INDIA"
    [] governmentType = "us" -> "US"
    [] OTHER -> "GENERAL"

CautionSentence ==
  "CAUTION: This document contains high-risk clauses that may be unfair or illegal. Legal consultation recommended."

GenerateSummary(clauses, governmentType) ==
  LET highRiskCount   == CountRisk(clauses, "high")
      mediumRiskCount == CountRisk(clauses, "medium")
  IN  << "Document analysis complete. Found ", ToString(Len(clauses)), " problematic clause(s): ",
         ToString(highRiskCount), " high-risk, ", ToString(mediumRiskCount), " medium-risk. " >>
      \o (IF governmentType # "general"
          THEN << "Analysis performed according to ", GovernmentToUpperCase(governmentType),
                  " regulations. " >>
          ELSE << >>)
      \o (IF highRiskCount > 0 THEN <<CautionSentence>> ELSE << >>)

EmptyCompliance == [compliant |-> TRUE, violations |-> << >>, recommendations |-> << >>]

EmptyReport ==
  [clauses |-> << >>, overallRiskScore |-> 0, governmentCompliance |-> EmptyCompliance,
   summary |-> << >>]

\* the report of the catch block of parseAnalysisResponse
FallbackReport ==
  [clauses |-> << >>, overallRiskScore |-> 0, governmentCompliance |-> EmptyCompliance,
   summary |-> <<"Unable to perform detailed analysis. Please review the document manually.">>]

Returned(v) == [threw |-> FALSE, value |-> v]
Thrown == [threw |-> TRUE, value |-> EmptyReport]

\* the try block of parseAnalysisResponse
ParseAnalysisBody(reply, originalText, governmentType, seed) ==
  IF reply.kind # "json" THEN Thrown
  ELSE
    LET analysis == reply.analysis
        raw      == IF analysis.problematicClauses = << >> THEN << >>
                    ELSE analysis.problematicClauses[1]
        clauses  == [i \in DOMAIN raw |->
                       [id         |-> GenerateId(seed, i - 1),
                        text       |-> TextOrEmpty(raw[i].text),
                        type       |-> MapToClauseType(raw[i].type),
                        confidence |-> CalculateConfidence(raw[i]),
                        riskLevel  |-> IF Truthy(raw[i].riskLevel) THEN raw[i].riskLevel
                                       ELSE "medium",
                        reason     |-> IF Truthy(raw[i].reason) THEN <<raw[i].reason>> ELSE <<"">>,
                        legalBasis |-> raw[i].legalBasis,
                        suggestion |-> raw[i].suggestion,
                        position   |-> FindTextPosition(raw[i].text, originalText)]]
        gc       == analysis.governmentCompliance
    IN  Returned(
          [clauses |-> clauses,
           overallRiskScore |->
             IF analysis.overallRiskScore # << >> /\ analysis.overallRiskScore[1] # 0
             THEN analysis.overallRiskScore[1]
             ELSE CalculateOverallRisk(clauses),
           governmentCompliance |->
             [compliant       |-> IF gc # << >> /\ gc[1].compliant # << >>
                                  THEN gc[1].compliant[1] ELSE TRUE,
              violations      |-> IF gc # << >> /\ gc[1].violations # << >>
                                  THEN gc[1].violations[1] ELSE << >>,
              recommendations |-> IF gc # << >> /\ gc[1].recommendations # << >>
                                  THEN gc[1].recommendations[1] ELSE << >>],
           summary |->
             IF analysis.summary # << >> /\ analysis.summary[1] # ""
             THEN <<analysis.summary[1]>>
             ELSE GenerateSummary(clauses, governmentType)])

ParseAnalysisResponse(reply, originalText, governmentType, seed) ==
  LET body == ParseAnalysisBody(reply, originalText, governmentType, seed)
  IN  IF body.threw THEN Returned(FallbackReport) ELSE body

AnalyzeLegalDocument(text, governmentType, reply, seed) ==
  LET attempt == IF reply.kind \in {"transport_error", "service_error"} THEN Thrown
                 ELSE ParseAnalysisResponse(reply, text, governmentType, seed)
  IN  IF attempt.threw THEN Thrown ELSE attempt

(***************************************************************************)
(* classifier.ts: reconciliation.                                          *)
(***************************************************************************)
Normalize(text) == Trim(CollapseSpaces(ToLowerCase(text)))

AreSimilarClauses(text1, text2) ==
  LET norm1 == Normalize(text1)
      norm2 == Normalize(text2)
  IN  \/ Includes(norm1, Substring(norm2, 0, PrefixLen))
      \/ Includes(norm2, Substring(norm1, 0, PrefixLen))

LocalDetectionPrefix == "[Local Detection] "

\* mutant: the similarity test is forgotten, every local clause is appended
MergeClassificationResults_AppendAll(aiClauses, localClauses) ==
  aiClauses \o [i \in DOMAIN localClauses |->
                 [localClauses[i] EXCEPT !.reason = <<LocalDetectionPrefix>> \o @]]

MergeClassificationResults(aiClauses, localClauses) ==
  LET unmatched == {i \in DOMAIN localClauses :
                      ~ \E a \in DOMAIN aiClauses :
                          AreSimilarClauses(aiClauses[a].text, localClauses[i].text)}
      marked    == [i \in DOMAIN localClauses |->
                      [localClauses[i] EXCEPT !.reason = <<LocalDetectionPrefix>> \o @]]
  IN  aiClauses \o SelectSeqIdx(marked, unmatched)

\* mutant: the total is not divided by the number of clauses
CalculateOverallRiskScore_NoMean(clauses) ==
  IF Len(clauses) = 0 THEN 0
  ELSE LET totalScore == SumSeq([i \in DOMAIN clauses |->
                           (IF clauses[i].riskLevel = "high" THEN 30
                            ELSE IF clauses[i].riskLevel = "medium" THEN 20 ELSE 10)
                             * clauses[i].confidence])
       IN  Min(RoundDiv(totalScore, 1000), 100)

CalculateOverallRiskScore(clauses) ==
  IF Len(clauses) = 0 THEN 0
  ELSE LET totalScore == SumSeq([i \in DOMAIN clauses |->
                           (IF clauses[i].riskLevel = "high" THEN 30
                            ELSE IF clauses[i].riskLevel = "medium" THEN 20 ELSE 10)
                             * clauses[i].confidence])
       IN  Min(RoundDiv(totalScore, 1000 * Len(clauses)), 100)

UnavailableRecommendation == "AI analysis unavailable - manual review recommended"

\* text.split('\n').filter(p => p.trim().length > 0)
Paragraphs(text) == SelectSeq(SplitLines(text), LAMBDA p : Len(Trim(p)) > 0)

\* mutant: merged is the remote array itself and the prefix is written into
\* the local clause
MergeEffects_InPlace(aiClauses, localClauses) ==
  LET unmatched == {i \in DOMAIN localClauses :
                      ~ \E a \in DOMAIN aiClauses :
                          AreSimilarClauses(aiClauses[a].text, localClauses[i].text)}
      marked    == [i \in DOMAIN localClauses |->
                      IF i \in unmatched
                      THEN [localClauses[i] EXCEPT !.reason = <<LocalDetectionPrefix>> \o @]
                      ELSE localClauses[i]]
  IN  [aiClauses |-> aiClauses \o SelectSeqIdx(marked, unmatched), localClauses |-> marked]

\* the two arrays handed to mergeClassificationResults as they are after the
\* call: merged is a copy ([...aiClauses]) and every pushed object is a copy
\* ({...localClause, reason}), so neither array nor any element is written
MergeEffects(aiClauses, localClauses) ==
  [aiClauses |-> aiClauses, localClauses |-> localClauses]

\* mutant: the summary is synthesized again from the merged clauses
MergedOutcome_Resynthesize(text, ai, seed) ==
  LET localResults == ClassifyText(Paragraphs(text), seed, Len(ai.clauses))
      merged       == MergeClassificationResults(ai.clauses, localResults)
  IN  [status |-> "resolved", branch |-> "merged",
       aiAnalysis |-> ai, localResults |-> localResults,
       report |->
         [clauses |-> merged,
          overallRiskScore |-> ai.overallRiskScore,
          governmentCompliance |-> ai.governmentCompliance,
          summary |-> GenerateSummary(merged, "general")]]

\* the try block of classifyWithAI after analyzeLegalDocument has returned ai
MergedOutcome(text, ai, seed) ==
  LET localResults == ClassifyText(Paragraphs(text), seed, Len(ai.clauses))
      after        == MergeEffects(ai.clauses, localResults)
  IN  [status |-> "resolved", branch |-> "merged",
       aiAnalysis |-> [ai EXCEPT !.clauses = after.aiClauses],
       localResults |-> after.localClauses,
       report |->
         [clauses |-> MergeClassificationResults(ai.clauses, localResults),
          overallRiskScore |-> ai.overallRiskScore,
          governmentCompliance |-> ai.governmentCompliance,
          summary |-> ai.summary]]

\* mutant: the degraded branch reuses generateSummary
DegradedSummary_Generated(localResults) == GenerateSummary(localResults, "general")

DegradedSummary(localResults) ==
  << "Local analysis found ", ToString(Len(localResults)),
     " potential issues. AI analysis unavailable." >>

\* mutant: the catch block logs and throws again
DegradedOutcome_Rethrow(text, seed) ==
  [status |-> "rejected", branch |-> "degraded", aiAnalysis |-> EmptyReport,
   localResults |-> << >>, report |-> EmptyReport]

\* mutant: the catch block returns the local clauses without the recommendation
DegradedOutcome_NoRecommendation(text, seed) ==
  LET localResults == ClassifyText(Paragraphs(text), seed, 0)
  IN  [status |-> "resolved", branch |-> "degraded",
       aiAnalysis |-> EmptyReport, localResults |-> localResults,
       report |->
         [clauses |-> localResults,
          overallRiskScore |-> CalculateOverallRiskScore(localResults),
          governmentCompliance |-> EmptyCompliance,
          summary |-> DegradedSummary(localResults)]]

\* the catch block of classifyWithAI
DegradedOutcome(text, seed) ==
  LET localResults == ClassifyText(Paragraphs(text), seed, 0)
  IN  [status |-> "resolved", branch |-> "degraded",
       aiAnalysis |-> EmptyReport, localResults |-> localResults,
       report |->
         [clauses |-> localResults,
          overallRiskScore |-> CalculateOverallRiskScore(localResults),
          governmentCompliance |->
            [compliant |-> TRUE, violations |-> << >>,
             recommendations |-> <<UnavailableRecommendation>>],
          summary |-> DegradedSummary(localResults)]]

ClassifyWithAI(text, governmentType, reply, seed) ==
  LET ai == AnalyzeLegalDocument(text, governmentType, reply, seed)
  IN  IF ~ ai.threw THEN MergedOutcome(text, ai.value, seed)
      ELSE DegradedOutcome(text, seed)

(***************************************************************************)
(* Inputs of the analysis: documents and replies of the remote service.    *)
(***************************************************************************)
LinePool == {LineA, LineB, LineC, LineE}

SeqsUpTo(S, n) == UNION {[1..k -> S] : k \in 0..n}

Documents == {JoinLines(lines) : lines \in SeqsUpTo(LinePool, MaxLines)}

\* the random source of generateId
IdSeeds == {0, 100}

RawClauseUpper ==
  [type |-> "payment", text |-> <<RemoteTextUpper>>, riskLevel |-> "high",
   reason |-> "Deposit may be lost", legalBasis |-> "Rent Control Act",
   suggestion |-> "Cap the deduction"]

RawClauseVerbatim ==
  [type |-> "Rent_Hike", text |-> <<LineC>>, riskLevel |-> "informational",
   reason |-> "Rent rises every year", legalBasis |-> Undefined, suggestion |-> Undefined]

RawClauseBare ==
  [type |-> Undefined, text |-> << >>, riskLevel |-> Undefined,
   reason |-> Undefined, legalBasis |-> Undefined, suggestion |-> Undefined]

RawClauseOutside ==
  [type |-> "utilities", text |-> <<RemoteTextOutside>>, riskLevel |-> "low",
   reason |-> "Utilities are borne by the tenant", legalBasis |-> Undefined,
   suggestion |-> "Ask for a cap"]

RawClauses == {RawClauseUpper, RawClauseVerbatim, RawClauseBare, RawClauseOutside}

RawScores == {<< >>, <<0>>, <<250>>}

RawCompliances ==
  { << >>,
    <<[compliant |-> <<FALSE>>, violations |-> << <<"Deposit exceeds the legal cap">> >>,
       recommendations |-> << <<"Reduce the deposit">> >>]>>,
    <<[compliant |-> << >>, violations |-> << >>, recommendations |-> << >>]>> }

RawSummaries == {<< >>, <<"X">>}

EmptyAnalysis ==
  [problematicClauses |-> << >>, overallRiskScore |-> << >>,
   governmentCompliance |-> << >>, summary |-> << >>]

Analyses ==
  [problematicClauses : {<< >>} \cup {<<cs>> : cs \in SeqsUpTo(RawClauses, MaxRemoteClauses)},
   overallRiskScore : RawScores,
   governmentCompliance : RawCompliances,
   summary : RawSummaries]

\* generateContent rejects, or response.text() throws
FailureKinds == {"transport_error", "service_error"}

\* no {...} in the body, JSON.parse throws, or problematicClauses is not an
\* array of objects
UnparsableKinds == {"no_json", "bad_json", "bad_shape"}

NoReply == [kind |-> "none", analysis |-> EmptyAnalysis]

NoOutcome ==
  [status |-> "pending", branch |-> "none", aiAnalysis |-> EmptyReport,
   localResults |-> << >>, report |-> EmptyReport]

(***************************************************************************)
(* ScanPage.processDocument and its inputs.  The repository holds two      *)
(* versions of the multi-image scan page: "combined" joins the paragraphs  *)
(* of all images into one document and hands a language to                 *)
(* extractParagraphs; "paged" stores one entry per image and calls         *)
(* extractParagraphs(file, callback) without a language.                   *)
(***************************************************************************)
MaxImages == 2

ScanPageVersions == {"combined", "paged"}

\* values of the language selector used as inputs
SelectedLangs == {"auto", "eng", "hin", "chi_sim"}

\* a captured image has a file, is a rasterized PDF page, or is a native
\* camera image without a file
ImageKinds == {"file", "pdf", "native"}

\* the language argument of a call that passes none
NoLanguage == "none"

FrancMinLength == 10

\* texts an extraction pass can return: length and the code franc detects
OcrTexts ==
  { [length |-> 0,   code |-> "und"],
    [length |-> 4,   code |-> "hin"],
    [length |-> 120, code |-> "eng"],
    [length |-> 120, code |-> "hin"],
    [length |-> 120, code |-> "cmn"],
    [length |-> 120, code |-> "urd"],
    [length |-> 120, code |-> "sco"] }

Franc_NoMinLength(textValue) == textValue.code

\* franc(text, { minLength: 10 })
Franc(textValue) == IF textValue.length < FrancMinLength THEN "und" ELSE textValue.code

FrancToTessCombined ==
  [c \in {"eng", "hin", "ben", "guj", "mar", "kan", "mal", "tam", "tel", "pan", "ori",
          "spa", "fra", "deu", "cmn"} |-> IF c = "cmn" THEN "chi_sim" ELSE c]

FrancToTessPaged ==
  [c \in {"eng", "hin", "ben", "guj", "mar", "kan", "mal", "tam", "tel", "pan", "ori",
          "asm", "bod", "doi", "gom", "kas", "kok", "mai", "mni", "nep", "san", "snd",
          "sat", "urd", "spa", "fra", "deu", "cmn"} |-> IF c = "cmn" THEN "chi_sim" ELSE c]

FrancToTess(version) == IF version = "combined" THEN FrancToTessCombined ELSE FrancToTessPaged

\* francToTess[langCode] || 'eng'
MapDetected(version, langCode) ==
  IF langCode \in DOMAIN FrancToTess(version) THEN FrancToTess(version)[langCode] ELSE "eng"

\* the language argument of a call of extractParagraphs
LanguageArgument(version, lang) == IF version = "combined" THEN lang ELSE NoLanguage

NoText == [length |-> 0, code |-> "und"]

NoResult == [pass |-> 0, text |-> NoText]

\* values of Math.round(m.progress * 100) the recognition logger hands to the
\* callback after the start of a pass; within one pass they increase
WorkerProgress == {50, 100}

\* a progress value as the exact fraction num / den
Fraction(num, den) == [num |-> num, den |-> den]

Whole(value) == Fraction(value, 1)

FractionLeq(a, b) == a.num * b.den <= b.num * a.den

\* progress: (i / capturedImages.length) * 100 at the head of an iteration
IterationProgress(i, n) == Fraction(i * 100, n)

\* Math.round((i / n) * 100 + progress.progress / n) in the callbacks
OverallProgress(i, n, progress) == Whole(RoundDiv(i * 100 + progress, n))

\* progress: 95 of 'Processing results...'
ResultsProgress == 95

\* extractText of the service with a language parameter reports
\* { status: 'initializing', progress: 0 } before its first await; the
\* service of the paged version reports nothing before recognition
ReportsInitializing(version) == version = "combined"

\* one call of setOcrProgress with a progress object: where it was made
\* (pass 0 is processDocument itself) and the value
ProgressEvent(i, k, value) == [page |-> i, pass |-> k, value |-> value]

\* the calls of setOcrProgress the state keeps: those of the last step that
\* made any, preceded by the one made before them
Recent(events, new) ==
  IF new = << >> THEN events
  ELSE (IF events = << >> THEN << >> ELSE << events[Len(events)] >>) \o new

\* the events at the start of pass k of image i
StartOfPass(version, i, n, k) ==
  IF ReportsInitializing(version)
  THEN << ProgressEvent(i, k, OverallProgress(i, n, 0)) >>
  ELSE << >>

(***************************************************************************)
(* OCRService: one instance, the extractText calls in progress on it and   *)
(* the Tesseract workers it has created.                                   *)
(***************************************************************************)
MaxCalls == 2

MaxWorkers == 2

Calls == 1..MaxCalls

WorkerIds == 1..MaxWorkers

\* languages requested from the service
Langs == {"eng", "hin"}

\* private worker: Tesseract.Worker | null = null
NoWorker == 0

NotCreated == [lang |-> "eng", status |-> "none"]

\* an extractText call: its position, its lang argument, the worker its
\* last terminate or recognize was issued on and the error it caught
IdleCall == [pc |-> "idle", lang |-> "eng", on |-> NoWorker, error |-> "none"]

\* a terminate() call: its position
IdleTerminator == [pc |-> "idle"]

(***************************************************************************)
(* classifyText on its own: paragraph lists drawn from a pool that also    *)
(* holds a line whose only hit stays under the threshold (LineK), a line   *)
(* whose hits add up to more than 1 (LineM), a line that shares its first  *)
(* 50 characters and its score with LineB (LineN) and a line that hits the *)
(* high-risk deposit rule by a keyword and the medium-risk one by a        *)
(* pattern (LineH) and a line whose scores for both deposit rules pass the *)
(* cap (LineT).                                                            *)
(***************************************************************************)
MaxParagraphs == 2

ParagraphPool == {LineA, LineB, LineC, LineE, LineS, LineK, LineM, LineN, LineH,
                  LineT}

ParagraphLists == SeqsUpTo(ParagraphPool, MaxParagraphs)

(***************************************************************************)
(* TranslationService: the singleton, the ML Kit plug-in it calls and the  *)
(* translate / ensureLanguageModel calls made on it.                       *)
(***************************************************************************)
MaxTranslationCalls == 2

TranslationCalls == 1..MaxTranslationCalls

\* languageMap, cut down to two of its entries
LanguageMap == [code \in {"en", "hi"} |-> IF code = "en" THEN "English" ELSE "Hindi"]

Languages == {LanguageMap[code] : code \in DOMAIN LanguageMap}

NoLanguageModel == "null"

\* this.languageMap[langCode] || null
GetMLKitLanguage(langCode) ==
  IF langCode \in DOMAIN LanguageMap THEN LanguageMap[langCode] ELSE NoLanguageModel

\* language codes handed to translate and ensureLanguageModel; languageMap
\* has no entry for 'mr'
TargetCodes == {"hi", "mr"}

\* values of options.sourceLanguage
SourceCodes == {"undefined", "en", "mr"}

OriginalText == "text"

TranslatedText == "result.text"

\* the translateOptions handed to Translation.translate
TranslateOptions(sourceLanguage, targetLanguage) ==
  LET sourceLang == IF sourceLanguage = "undefined" THEN NoLanguageModel
                    ELSE GetMLKitLanguage(sourceLanguage)
  IN  IF sourceLang = NoLanguageModel
      THEN [text |-> OriginalText, targetLanguage |-> GetMLKitLanguage(targetLanguage)]
      ELSE [text |-> OriginalText, targetLanguage |-> GetMLKitLanguage(targetLanguage),
            sourceLanguage |-> sourceLang]

\* this.availableLanguages.add(lang) without the add
CacheAfterDownload_Skipped(cache, lang) == cache

\* this.availableLanguages.add(lang) after the awaited downloadModel
CacheAfterDownload(cache, lang) == cache \cup {lang}

\* a translate or ensureLanguageModel call: its position, its arguments, the
\* outcome of the download it issued and the value it returned
IdleTranslation ==
  [pc |-> "idle", kind |-> "translate", source |-> "undefined", target |-> "hi",
   download |-> "none", returned |-> "none"]

(***************************************************************************)
(* State.  passes lists the calls of extractParagraphs in the order they    *)
(* are issued: the image, the language argument and, once the call has     *)
(* resolved, the text it returned.  progressEvents lists the most recent    *)
(* calls of setOcrProgress with a progress object in the order they were   *)
(* made (see Recent), and passProgress is the last value the worker        *)
(* reported in the running pass.                                           *)
(***************************************************************************)
VARIABLES
  \* one call of classifyWithAI
  pc, text, governmentType, idSeed, reply, outcome,
  \* one call of processDocument
  scanPage, selectedLang, capturedImages, scanPc, imageIndex, passes, ocrResult,
  pages, detectedLang, francCalls, scanError, progressEvents, passProgress,
  \* one OCRService instance and the calls made on it
  worker, isInitialized, currentLang, workers, calls, terminator,
  \* calls of classifyText and deduplicateResults on one paragraph list
  classifierPc, paragraphs, classifierSeed, results, classified, classifiedAgain,
  deduplicatedAgain, permuted, classifiedPermuted,
  \* the TranslationService singleton, the models on the device, the
  \* getDownloadedModels call of the constructor and the calls on the service
  isNativePlatform, availableLanguages, downloadedModels, initializing, translations

analysisVars == <<pc, text, governmentType, idSeed, reply, outcome>>

scanVars ==
  <<scanPage, selectedLang, capturedImages, scanPc, imageIndex, passes, ocrResult,
    pages, detectedLang, francCalls, scanError, progressEvents, passProgress>>

ocrVars == <<worker, isInitialized, currentLang, workers, calls, terminator>>

classifierVars ==
  <<classifierPc, paragraphs, classifierSeed, results, classified, classifiedAgain,
    deduplicatedAgain, permuted, classifiedPermuted>>

translationVars ==
  <<isNativePlatform, availableLanguages, downloadedModels, initializing, translations>>

vars == <<analysisVars, scanVars, ocrVars, classifierVars, translationVars>>

AnalysisIdle ==
  /\ pc = "idle"
  /\ text = << >>
  /\ governmentType = "general"
  /\ idSeed = 0
  /\ reply = NoReply
  /\ outcome = NoOutcome

ScanIdle ==
  /\ scanPc = "idle"
  /\ imageIndex = 0
  /\ passes = << >>
  /\ ocrResult = NoResult
  /\ pages = << >>
  /\ detectedLang = "eng"
  /\ francCalls = 0
  /\ scanError = "null"
  /\ progressEvents = << >>
  /\ passProgress = 0

OcrIdle ==
  /\ worker = NoWorker
  /\ isInitialized = FALSE
  /\ currentLang = "eng"
  /\ workers = [w \in WorkerIds |-> NotCreated]
  /\ calls = [c \in Calls |-> IdleCall]
  /\ terminator = IdleTerminator

ClassifierIdle ==
  /\ classifierPc = "idle"
  /\ paragraphs = << >>
  /\ classifierSeed = 0
  /\ results = << >>
  /\ classified = << >>
  /\ classifiedAgain = << >>
  /\ deduplicatedAgain = << >>
  /\ permuted = << >>
  /\ classifiedPermuted = << >>

\* no TranslationService call is made; on the web the constructor awaits nothing
TranslationIdle ==
  /\ isNativePlatform = FALSE
  /\ availableLanguages = {}
  /\ downloadedModels = {}
  /\ initializing = [pc |-> "done", languages |-> {}]
  /\ translations = [c \in TranslationCalls |-> IdleTranslation]

(***************************************************************************)
(* The analysis as a state machine: one call of classifyWithAI.            *)
(***************************************************************************)
Init ==
  /\ AnalysisIdle
  /\ ScanIdle
  /\ OcrIdle
  /\ ClassifierIdle
  /\ TranslationIdle
  /\ scanPage = "combined"
  /\ selectedLang = "auto"
  /\ capturedImages = << >>

\* classifyWithAI is called and awaits analyzeLegalDocument
CallClassifyWithAI ==
  /\ pc = "idle"
  /\ \E t \in Documents, g \in GovernmentTypes, s \in IdSeeds :
       /\ text' = t
       /\ governmentType' = g
       /\ idSeed' = s
  /\ pc' = "awaiting"
  /\ UNCHANGED <<reply, outcome, scanVars, ocrVars, classifierVars, translationVars>>

\* the rest of classifyWithAI once the remote call has settled with r
Settle(r) ==
  /\ pc = "awaiting"
  /\ reply' = r
  /\ outcome' = ClassifyWithAI(text, governmentType, r, idSeed)
  /\ pc' = "done"
  /\ UNCHANGED <<text, governmentType, idSeed, scanVars, ocrVars, classifierVars, translationVars>>

RemoteFails == \E k \in FailureKinds : Settle([kind |-> k, analysis |-> EmptyAnalysis])

RemoteRepliesUnparsable ==
  \E k \in UnparsableKinds : Settle([kind |-> k, analysis |-> EmptyAnalysis])

RemoteRepliesJson == \E a \in Analyses : Settle([kind |-> "json", analysis |-> a])

Next ==
  \/ CallClassifyWithAI
  \/ RemoteFails
  \/ RemoteRepliesUnparsable
  \/ RemoteRepliesJson

Spec == Init /\ [][Next]_vars

\* The call is made; nothing in analyzeLegalDocument or classifyWithAI bounds
\* the wait for generateContent, so no step of the remote service is fair.
LiveSpec == Spec /\ WF_vars(CallClassifyWithAI)

(***************************************************************************)
(* The scan as a state machine: one call of processDocument.               *)
(***************************************************************************)
ScanInit ==
  /\ AnalysisIdle
  /\ ScanIdle
  /\ OcrIdle
  /\ ClassifierIdle
  /\ TranslationIdle
  /\ scanPage \in ScanPageVersions
  /\ selectedLang \in SelectedLangs
  /\ capturedImages \in SeqsUpTo(ImageKinds, MaxImages)

\* processDocument up to the loop over the captured images
ProcessDocument ==
  /\ scanPc = "idle"
  /\ Len(capturedImages) # 0
  /\ scanPc' = "loop"
  /\ progressEvents' = Recent(progressEvents, << ProgressEvent(0, 0, Whole(0)) >>)
  /\ UNCHANGED <<scanPage, selectedLang, capturedImages, imageIndex, passes, ocrResult,
                 pages, detectedLang, francCalls, scanError, passProgress, analysisVars, ocrVars, classifierVars, translationVars>>

\* the head of one loop iteration: an image without a file is skipped, for
\* any other image the first extraction pass is issued
NextImage ==
  /\ scanPc = "loop"
  /\ imageIndex < Len(capturedImages)
  /\ passProgress' = 0
  /\ IF capturedImages[imageIndex + 1] = "native"
     THEN /\ imageIndex' = imageIndex + 1
          /\ progressEvents' =
               Recent(progressEvents,
                      << ProgressEvent(imageIndex, 0,
                                       IterationProgress(imageIndex, Len(capturedImages))) >>)
          /\ UNCHANGED <<scanPc, passes>>
     ELSE /\ progressEvents' =
               Recent(progressEvents,
                      << ProgressEvent(imageIndex, 0,
                                       IterationProgress(imageIndex, Len(capturedImages))) >>
                      \o StartOfPass(scanPage, imageIndex, Len(capturedImages), 1))
          /\ passes' = Append(passes,
                         [page |-> imageIndex,
                          lang |-> LanguageArgument(scanPage,
                                     IF selectedLang = "auto" THEN "eng" ELSE selectedLang),
                          text |-> NoText])
          /\ scanPc' = "pass1"
          /\ UNCHANGED imageIndex
  /\ UNCHANGED <<scanPage, selectedLang, capturedImages, ocrResult, pages, detectedLang,
                 francCalls, scanError, analysisVars, ocrVars, classifierVars, translationVars>>

\* pages.push(...) / allParagraphs.push(...) and the step to the next image
StorePage(result) ==
  /\ pages' = Append(pages, [image |-> imageIndex, result |-> result])
  /\ imageIndex' = imageIndex + 1
  /\ scanPc' = "loop"

\* the first extractParagraphs of the iteration resolves with textValue
FirstPassReturns ==
  /\ scanPc = "pass1"
  /\ \E textValue \in OcrTexts :
       LET result   == [pass |-> Len(passes), text |-> textValue]
           returned == [passes EXCEPT ![Len(passes)].text = textValue]
       IN  /\ ocrResult' = result
           /\ IF selectedLang = "auto"
              THEN LET mapped == MapDetected(scanPage, Franc(textValue))
                   IN  /\ francCalls' = francCalls + 1
                       /\ detectedLang' = mapped
                       /\ IF mapped # "eng"
                          THEN /\ passes' = Append(returned,
                                              [page |-> imageIndex,
                                               lang |-> LanguageArgument(scanPage, mapped),
                                               text |-> NoText])
                               /\ scanPc' = "pass2"
                               /\ progressEvents' =
                                    Recent(progressEvents,
                                           StartOfPass(scanPage, imageIndex,
                                                       Len(capturedImages), 2))
                               /\ passProgress' = 0
                               /\ UNCHANGED <<pages, imageIndex>>
                          ELSE /\ StorePage(result)
                               /\ passes' = returned
                               /\ UNCHANGED <<progressEvents, passProgress>>
              ELSE /\ StorePage(result)
                   /\ passes' = returned
                   /\ UNCHANGED <<detectedLang, francCalls, progressEvents, passProgress>>
  /\ UNCHANGED <<scanPage, selectedLang, capturedImages, scanError, analysisVars, ocrVars, classifierVars, translationVars>>

\* the second extractParagraphs of the iteration resolves with textValue
SecondPassReturns ==
  /\ scanPc = "pass2"
  /\ \E textValue \in OcrTexts :
       LET result == [pass |-> Len(passes), text |-> textValue]
       IN  /\ ocrResult' = result
           /\ passes' = [passes EXCEPT ![Len(passes)].text = textValue]
           /\ StorePage(result)
  /\ UNCHANGED <<scanPage, selectedLang, capturedImages, detectedLang, francCalls,
                 scanError, progressEvents, passProgress, analysisVars, ocrVars, classifierVars, translationVars>>

\* the recognition logger of the running pass reports progress and the
\* callback of processDocument hands the overall value to setOcrProgress
PassReports ==
  /\ scanPc \in {"pass1", "pass2"}
  /\ \E progress \in WorkerProgress :
       /\ progress > passProgress
       /\ passProgress' = progress
       /\ progressEvents' =
            Recent(progressEvents,
                   << ProgressEvent(imageIndex, IF scanPc = "pass1" THEN 1 ELSE 2,
                                    OverallProgress(imageIndex, Len(capturedImages),
                                                    progress)) >>)
  /\ UNCHANGED <<scanPage, selectedLang, capturedImages, scanPc, imageIndex, passes,
                 ocrResult, pages, detectedLang, francCalls, scanError, analysisVars, ocrVars, classifierVars, translationVars>>

\* extractParagraphs rejects: the catch block of processDocument
PassFails ==
  /\ scanPc \in {"pass1", "pass2"}
  /\ scanError' = "OCR processing failed"
  /\ scanPc' = "failed"
  /\ UNCHANGED <<scanPage, selectedLang, capturedImages, imageIndex, passes, ocrResult,
                 pages, detectedLang, francCalls, progressEvents, passProgress,
                 analysisVars, ocrVars, classifierVars, translationVars>>

\* after the loop: the document is stored and the viewer is opened
StoreDocument ==
  /\ scanPc = "loop"
  /\ imageIndex = Len(capturedImages)
  /\ scanPc' = "stored"
  /\ progressEvents' =
       Recent(progressEvents, << ProgressEvent(imageIndex, 0, Whole(ResultsProgress)) >>)
  /\ UNCHANGED <<scanPage, selectedLang, capturedImages, imageIndex, passes, ocrResult,
                 pages, detectedLang, francCalls, scanError, passProgress, analysisVars, ocrVars, classifierVars, translationVars>>

ScanNext ==
  \/ ProcessDocument
  \/ NextImage
  \/ PassReports
  \/ FirstPassReturns
  \/ SecondPassReturns
  \/ PassFails
  \/ StoreDocument

ScanSpec == ScanInit /\ [][ScanNext]_vars


(***************************************************************************)
(* OCRService as a state machine.  A step runs from one await to the next. *)
(***************************************************************************)
OcrInit ==
  /\ AnalysisIdle
  /\ ScanIdle
  /\ OcrIdle
  /\ ClassifierIdle
  /\ TranslationIdle
  /\ scanPage = "combined"
  /\ selectedLang = "auto"
  /\ capturedImages = << >>

\* worker.terminate() is issued on w
Terminated(w) == [workers EXCEPT ![w].status = "terminated"]

\* the worker a resolving createWorker hands out
FreshWorker == CHOOSE w \in WorkerIds :
                 /\ workers[w].status = "none"
                 /\ \A v \in WorkerIds : workers[v].status = "none" => w <= v

\* extractText(imageFile, lang, onProgress) up to the first await inside
\* initialize(lang)
ExtractText(c) ==
  /\ calls[c].pc = "idle"
  /\ \E lang \in Langs :
       IF isInitialized /\ worker # NoWorker /\ currentLang = lang
       THEN /\ calls' = [calls EXCEPT ![c] = [pc |-> "initialized", lang |-> lang,
                                              on |-> NoWorker, error |-> "none"]]
            /\ UNCHANGED <<worker, isInitialized, currentLang, workers>>
       ELSE IF worker # NoWorker
            THEN /\ workers' = Terminated(worker)
                 /\ calls' = [calls EXCEPT ![c] = [pc |-> "switching", lang |-> lang,
                                                   on |-> worker, error |-> "none"]]
                 /\ UNCHANGED <<worker, isInitialized, currentLang>>
            ELSE /\ currentLang' = lang
                 /\ calls' = [calls EXCEPT ![c] = [pc |-> "creating", lang |-> lang,
                                                   on |-> NoWorker, error |-> "none"]]
                 /\ UNCHANGED <<worker, isInitialized, workers>>
  /\ UNCHANGED <<terminator, analysisVars, scanVars, classifierVars, translationVars>>

\* initialize after await this.worker.terminate(): up to await createWorker
SwitchTerminated(c) ==
  /\ calls[c].pc = "switching"
  /\ worker' = NoWorker
  /\ isInitialized' = FALSE
  /\ currentLang' = calls[c].lang
  /\ calls' = [calls EXCEPT ![c].pc = "creating"]
  /\ UNCHANGED <<workers, terminator, analysisVars, scanVars, classifierVars, translationVars>>

\* Tesseract.createWorker(lang, ...) resolves: the rest of initialize
CreateWorkerResolves(c) ==
  /\ calls[c].pc = "creating"
  /\ \E w \in WorkerIds : workers[w].status = "none"
  /\ workers' = [workers EXCEPT ![FreshWorker] = [lang |-> calls[c].lang, status |-> "live"]]
  /\ worker' = FreshWorker
  /\ isInitialized' = TRUE
  /\ calls' = [calls EXCEPT ![c].pc = "initialized"]
  /\ UNCHANGED <<currentLang, terminator, analysisVars, scanVars, classifierVars, translationVars>>

\* Tesseract.createWorker rejects: the catch block of initialize
CreateWorkerRejects(c) ==
  /\ calls[c].pc = "creating"
  /\ worker' = NoWorker
  /\ isInitialized' = FALSE
  /\ calls' = [calls EXCEPT ![c].pc = "failing",
                            ![c].error = "Could not initialize OCR service"]
  /\ UNCHANGED <<currentLang, workers, terminator, analysisVars, scanVars, classifierVars, translationVars>>

\* extractText after await this.initialize(...): up to await Promise.race
StartRecognition(c) ==
  /\ calls[c].pc = "initialized"
  /\ IF worker = NoWorker
     THEN calls' = [calls EXCEPT ![c].pc = "failing",
                                 ![c].error = "OCR worker not initialized"]
     ELSE calls' = [calls EXCEPT ![c].pc = "racing", ![c].on = worker]
  /\ UNCHANGED <<worker, isInitialized, currentLang, workers, terminator,
                 analysisVars, scanVars, classifierVars, translationVars>>

\* worker.recognize(imageFile) resolves first: extractText returns the text
RecognizeResolves(c) ==
  /\ calls[c].pc = "racing"
  /\ workers[calls[c].on].status = "live"
  /\ calls' = [calls EXCEPT ![c].pc = "resolved"]
  /\ UNCHANGED <<worker, isInitialized, currentLang, workers, terminator,
                 analysisVars, scanVars, classifierVars, translationVars>>

\* worker.recognize(imageFile) rejects first
RecognizeRejects(c) ==
  /\ calls[c].pc = "racing"
  /\ calls' = [calls EXCEPT ![c].pc = "failing", ![c].error = "recognize rejected"]
  /\ UNCHANGED <<worker, isInitialized, currentLang, workers, terminator,
                 analysisVars, scanVars, classifierVars, translationVars>>

\* the 60-second timer of the race rejects first
TimeoutFires(c) ==
  /\ calls[c].pc = "racing"
  /\ calls' = [calls EXCEPT ![c].pc = "failing",
                            ![c].error = "OCR processing timed out after 60 seconds"]
  /\ UNCHANGED <<worker, isInitialized, currentLang, workers, terminator,
                 analysisVars, scanVars, classifierVars, translationVars>>

\* the catch block of extractText up to await this.worker.terminate()
CatchError(c) ==
  /\ calls[c].pc = "failing"
  /\ IF worker # NoWorker
     THEN /\ workers' = Terminated(worker)
          /\ calls' = [calls EXCEPT ![c].pc = "catchTerminating", ![c].on = worker]
     ELSE /\ calls' = [calls EXCEPT ![c].pc = "rejected"]
          /\ UNCHANGED workers
  /\ UNCHANGED <<worker, isInitialized, currentLang, terminator, analysisVars, scanVars, classifierVars, translationVars>>

\* the rest of the catch block without this.worker = null
CatchTerminated_KeepsWorker(c) ==
  /\ calls[c].pc = "catchTerminating"
  /\ calls' = [calls EXCEPT ![c].pc = "rejected"]
  /\ UNCHANGED <<worker, isInitialized, currentLang, workers, terminator, analysisVars,
                 scanVars, classifierVars, translationVars>>

\* the rest of the catch block: this.worker = null and the rethrow
CatchTerminated(c) ==
  /\ calls[c].pc = "catchTerminating"
  /\ worker' = NoWorker
  /\ calls' = [calls EXCEPT ![c].pc = "rejected"]
  /\ UNCHANGED <<isInitialized, currentLang, workers, terminator, analysisVars, scanVars, classifierVars, translationVars>>

\* the caller has taken the result or the error and may call again
Returns(c) ==
  /\ calls[c].pc \in {"resolved", "rejected"}
  /\ calls' = [calls EXCEPT ![c] = IdleCall]
  /\ UNCHANGED <<worker, isInitialized, currentLang, workers, terminator,
                 analysisVars, scanVars, classifierVars, translationVars>>

\* terminate(), called by the errorHandler of a worker or from outside, up to
\* await this.worker.terminate()
Terminate ==
  /\ terminator.pc = "idle"
  /\ worker # NoWorker
  /\ workers' = Terminated(worker)
  /\ terminator' = [pc |-> "terminating"]
  /\ UNCHANGED <<worker, isInitialized, currentLang, calls, analysisVars, scanVars, classifierVars, translationVars>>

\* the rest of terminate(): this.worker = null
TerminateDone ==
  /\ terminator.pc = "terminating"
  /\ worker' = NoWorker
  /\ terminator' = IdleTerminator
  /\ UNCHANGED <<isInitialized, currentLang, workers, calls, analysisVars, scanVars, classifierVars, translationVars>>

OcrNext ==
  \/ \E c \in Calls : ExtractText(c)
  \/ \E c \in Calls : SwitchTerminated(c)
  \/ \E c \in Calls : CreateWorkerResolves(c)
  \/ \E c \in Calls : CreateWorkerRejects(c)
  \/ \E c \in Calls : StartRecognition(c)
  \/ \E c \in Calls : RecognizeResolves(c)
  \/ \E c \in Calls : RecognizeRejects(c)
  \/ \E c \in Calls : TimeoutFires(c)
  \/ \E c \in Calls : CatchError(c)
  \/ \E c \in Calls : CatchTerminated(c)
  \/ \E c \in Calls : Returns(c)
  \/ Terminate
  \/ TerminateDone

OcrSpec == OcrInit /\ [][OcrNext]_vars

\* The steps of the service itself, the terminate calls it awaits and the
\* timer of the race are fair; createWorker and recognize need not settle.
OcrLiveSpec ==
  /\ OcrSpec
  /\ \A c \in Calls :
       /\ WF_vars(SwitchTerminated(c))
       /\ WF_vars(StartRecognition(c))
       /\ WF_vars(TimeoutFires(c))
       /\ WF_vars(CatchError(c))
       /\ WF_vars(CatchTerminated(c))
  /\ WF_vars(TerminateDone)

(***************************************************************************)
(* OCRService used by one caller that awaits every call before it makes    *)
(* the next: extractText, initialize on its own and terminate.             *)
(***************************************************************************)
\* no call of the service is in progress
Quiet ==
  /\ terminator.pc = "idle"
  /\ \A c \in Calls : calls[c].pc = "idle"

\* initialize(lang) called on its own, up to its first await or its return
Initialize(c) ==
  /\ calls[c].pc = "idle"
  /\ \E lang \in Langs :
       IF isInitialized /\ worker # NoWorker /\ currentLang = lang
       THEN /\ calls' = [calls EXCEPT ![c] = [pc |-> "returned", lang |-> lang,
                                              on |-> NoWorker, error |-> "none"]]
            /\ UNCHANGED <<worker, isInitialized, currentLang, workers>>
       ELSE IF worker # NoWorker
            THEN /\ workers' = Terminated(worker)
                 /\ calls' = [calls EXCEPT ![c] = [pc |-> "initializeSwitching",
                                                   lang |-> lang, on |-> worker,
                                                   error |-> "none"]]
                 /\ UNCHANGED <<worker, isInitialized, currentLang>>
            ELSE /\ currentLang' = lang
                 /\ calls' = [calls EXCEPT ![c] = [pc |-> "initializeCreating",
                                                   lang |-> lang, on |-> NoWorker,
                                                   error |-> "none"]]
                 /\ UNCHANGED <<worker, isInitialized, workers>>
  /\ UNCHANGED <<terminator, analysisVars, scanVars, classifierVars, translationVars>>

\* initialize on its own after await this.worker.terminate()
InitializeSwitchTerminated(c) ==
  /\ calls[c].pc = "initializeSwitching"
  /\ worker' = NoWorker
  /\ isInitialized' = FALSE
  /\ currentLang' = calls[c].lang
  /\ calls' = [calls EXCEPT ![c].pc = "initializeCreating"]
  /\ UNCHANGED <<workers, terminator, analysisVars, scanVars, classifierVars, translationVars>>

\* initialize on its own: createWorker resolves and initialize returns
InitializeCreateWorkerResolves(c) ==
  /\ calls[c].pc = "initializeCreating"
  /\ \E w \in WorkerIds : workers[w].status = "none"
  /\ workers' = [workers EXCEPT ![FreshWorker] = [lang |-> calls[c].lang, status |-> "live"]]
  /\ worker' = FreshWorker
  /\ isInitialized' = TRUE
  /\ calls' = [calls EXCEPT ![c].pc = "returned"]
  /\ UNCHANGED <<currentLang, terminator, analysisVars, scanVars, classifierVars, translationVars>>

\* initialize on its own: createWorker rejects and initialize throws
InitializeCreateWorkerRejects(c) ==
  /\ calls[c].pc = "initializeCreating"
  /\ worker' = NoWorker
  /\ isInitialized' = FALSE
  /\ calls' = [calls EXCEPT ![c].pc = "rejected",
                            ![c].error = "Could not initialize OCR service"]
  /\ UNCHANGED <<currentLang, workers, terminator, analysisVars, scanVars, classifierVars, translationVars>>

\* the caller has awaited initialize
InitializeReturns(c) ==
  /\ calls[c].pc = "returned"
  /\ calls' = [calls EXCEPT ![c] = IdleCall]
  /\ UNCHANGED <<worker, isInitialized, currentLang, workers, terminator,
                 analysisVars, scanVars, classifierVars, translationVars>>

\* the next call is made when the one before it has been awaited
NextExtractText(c) == Quiet /\ ExtractText(c)

NextInitialize(c) == Quiet /\ Initialize(c)

NextTerminate == Quiet /\ Terminate

OcrSequentialNext ==
  \/ \E c \in Calls : NextExtractText(c)
  \/ \E c \in Calls : NextInitialize(c)
  \/ NextTerminate
  \/ \E c \in Calls : SwitchTerminated(c)
  \/ \E c \in Calls : CreateWorkerResolves(c)
  \/ \E c \in Calls : CreateWorkerRejects(c)
  \/ \E c \in Calls : StartRecognition(c)
  \/ \E c \in Calls : RecognizeResolves(c)
  \/ \E c \in Calls : RecognizeRejects(c)
  \/ \E c \in Calls : TimeoutFires(c)
  \/ \E c \in Calls : CatchError(c)
  \/ \E c \in Calls : CatchTerminated(c)
  \/ \E c \in Calls : Returns(c)
  \/ \E c \in Calls : InitializeSwitchTerminated(c)
  \/ \E c \in Calls : InitializeCreateWorkerResolves(c)
  \/ \E c \in Calls : InitializeCreateWorkerRejects(c)
  \/ \E c \in Calls : InitializeReturns(c)
  \/ TerminateDone

OcrSequentialSpec == OcrInit /\ [][OcrSequentialNext]_vars

(***************************************************************************)
(* classifyText and deduplicateResults as a state machine: the classifier  *)
(* is called on a paragraph list, called again on the same list and on a   *)
(* reordering of it, and deduplicateResults is applied to the output of    *)
(* the first call.                                                         *)
(***************************************************************************)
ClassifierInit ==
  /\ AnalysisIdle
  /\ ScanIdle
  /\ OcrIdle
  /\ TranslationIdle
  /\ scanPage = "combined"
  /\ selectedLang = "auto"
  /\ capturedImages = << >>
  /\ classifierPc = "idle"
  /\ paragraphs \in ParagraphLists
  /\ classifierSeed \in IdSeeds
  /\ results = << >>
  /\ classified = << >>
  /\ classifiedAgain = << >>
  /\ deduplicatedAgain = << >>
  /\ permuted = << >>
  /\ classifiedPermuted = << >>

\* classifyText(paragraphs): the candidates of the forEach and the return value
CallClassifyText ==
  /\ classifierPc = "idle"
  /\ results' = ClassifyParagraphs(paragraphs, 0, classifierSeed, 0)
  /\ classified' = ClassifyText(paragraphs, classifierSeed, 0)
  /\ classifierPc' = "classified"
  /\ UNCHANGED <<paragraphs, classifierSeed, classifiedAgain, deduplicatedAgain,
                 permuted, classifiedPermuted, analysisVars, scanVars, ocrVars, translationVars>>

\* a second classifyText(paragraphs); generateId draws from Math.random and
\* Date.now again
CallClassifyTextAgain ==
  /\ classifierPc = "classified"
  /\ \E seed \in IdSeeds : classifiedAgain' = ClassifyText(paragraphs, seed, 0)
  /\ classifierPc' = "classifiedAgain"
  /\ UNCHANGED <<paragraphs, classifierSeed, results, classified, deduplicatedAgain,
                 permuted, classifiedPermuted, analysisVars, scanVars, ocrVars, translationVars>>

\* deduplicateResults applied to the output of classifyText
CallDeduplicateResultsAgain ==
  /\ classifierPc = "classified"
  /\ deduplicatedAgain' = DeduplicateResults(classified)
  /\ classifierPc' = "deduplicatedAgain"
  /\ UNCHANGED <<paragraphs, classifierSeed, results, classified, classifiedAgain,
                 permuted, classifiedPermuted, analysisVars, scanVars, ocrVars, translationVars>>

\* the orders in which the elements of a list can be handed to classifyText
Reorderings(list) ==
  LET n == Len(list)
      bijections == {q \in [1..n -> 1..n] : \A i, j \in 1..n : q[i] = q[j] => i = j}
  IN  {[i \in 1..n |-> list[q[i]]] : q \in bijections}

\* classifyText on the same paragraphs in another order
CallClassifyTextPermuted ==
  /\ classifierPc = "classified"
  /\ \E order \in Reorderings(paragraphs), seed \in IdSeeds :
       /\ permuted' = order
       /\ classifiedPermuted' = ClassifyText(order, seed, 0)
  /\ classifierPc' = "classifiedPermuted"
  /\ UNCHANGED <<paragraphs, classifierSeed, results, classified, classifiedAgain,
                 deduplicatedAgain, analysisVars, scanVars, ocrVars, translationVars>>

ClassifierNext ==
  \/ CallClassifyText
  \/ CallClassifyTextAgain
  \/ CallClassifyTextPermuted
  \/ CallDeduplicateResultsAgain

ClassifierSpec == ClassifierInit /\ [][ClassifierNext]_vars

(***************************************************************************)
(* TranslationService as a state machine.  The constructor has run: on a   *)
(* native platform its getDownloadedModels call is in flight.  A download  *)
(* that succeeds puts the model on the device before the awaiting call     *)
(* continues.                                                              *)
(***************************************************************************)
TranslationInit ==
  /\ AnalysisIdle
  /\ ScanIdle
  /\ OcrIdle
  /\ ClassifierIdle
  /\ scanPage = "combined"
  /\ selectedLang = "auto"
  /\ capturedImages = << >>
  /\ isNativePlatform \in BOOLEAN
  /\ availableLanguages = {}
  /\ downloadedModels \in SUBSET Languages
  /\ initializing = [pc |-> IF isNativePlatform THEN "calling" ELSE "done", languages |-> {}]
  /\ translations = [c \in TranslationCalls |-> IdleTranslation]

\* Translation.getDownloadedModels() reads the models on the device
GetDownloadedModels ==
  /\ initializing.pc = "calling"
  /\ initializing' = [pc |-> "read", languages |-> downloadedModels]
  /\ UNCHANGED <<isNativePlatform, availableLanguages, downloadedModels, translations,
                 analysisVars, scanVars, ocrVars, classifierVars>>

\* initializeAvailableLanguages continues: every reported language is added
InitializeResolves ==
  /\ initializing.pc = "read"
  /\ availableLanguages' = availableLanguages \cup initializing.languages
  /\ initializing' = [initializing EXCEPT !.pc = "done"]
  /\ UNCHANGED <<isNativePlatform, downloadedModels, translations,
                 analysisVars, scanVars, ocrVars, classifierVars>>

\* getDownloadedModels rejects: the catch block of initializeAvailableLanguages
InitializeRejects ==
  /\ initializing.pc = "calling"
  /\ initializing' = [pc |-> "done", languages |-> {}]
  /\ UNCHANGED <<isNativePlatform, availableLanguages, downloadedModels, translations,
                 analysisVars, scanVars, ocrVars, classifierVars>>

\* translate(options) up to its first await or its return
Translate(c) ==
  /\ translations[c].pc = "idle"
  /\ \E sourceLanguage \in SourceCodes, targetLanguage \in TargetCodes :
       LET targetLang == GetMLKitLanguage(targetLanguage)
           call == [IdleTranslation EXCEPT !.kind = "translate",
                                           !.source = sourceLanguage,
                                           !.target = targetLanguage]
       IN  translations' =
             [translations EXCEPT ![c] =
                IF ~ isNativePlatform \/ targetLang = NoLanguageModel
                THEN [call EXCEPT !.pc = "done", !.returned = OriginalText]
                ELSE IF targetLang \notin availableLanguages
                     THEN [call EXCEPT !.pc = "downloading"]
                     ELSE [call EXCEPT !.pc = "translating"]]
  /\ UNCHANGED <<isNativePlatform, availableLanguages, downloadedModels, initializing,
                 analysisVars, scanVars, ocrVars, classifierVars>>

\* ensureLanguageModel(language) up to its await or its return
EnsureLanguageModel(c) ==
  /\ translations[c].pc = "idle"
  /\ \E language \in TargetCodes :
       LET lang == GetMLKitLanguage(language)
           call == [IdleTranslation EXCEPT !.kind = "ensure", !.target = language]
       IN  translations' =
             [translations EXCEPT ![c] =
                IF /\ lang # NoLanguageModel
                   /\ lang \notin availableLanguages
                   /\ isNativePlatform
                THEN [call EXCEPT !.pc = "downloading"]
                ELSE [call EXCEPT !.pc = "done", !.returned = "undefined"]]
  /\ UNCHANGED <<isNativePlatform, availableLanguages, downloadedModels, initializing,
                 analysisVars, scanVars, ocrVars, classifierVars>>

\* the plug-in finishes the download issued by call c
DownloadModelResolves(c) ==
  /\ translations[c].pc = "downloading"
  /\ downloadedModels' = downloadedModels \cup {GetMLKitLanguage(translations[c].target)}
  /\ translations' = [translations EXCEPT ![c].pc = "downloaded", ![c].download = "ok"]
  /\ UNCHANGED <<isNativePlatform, availableLanguages, initializing,
                 analysisVars, scanVars, ocrVars, classifierVars>>

\* call c continues after its await downloadModel: the language is added and
\* translate goes on to Translation.translate
DownloadModelContinues(c) ==
  /\ translations[c].pc = "downloaded"
  /\ availableLanguages' =
       CacheAfterDownload(availableLanguages, GetMLKitLanguage(translations[c].target))
  /\ translations' =
       [translations EXCEPT ![c] =
          IF translations[c].kind = "translate"
          THEN [@ EXCEPT !.pc = "translating"]
          ELSE [@ EXCEPT !.pc = "done", !.returned = "undefined"]]
  /\ UNCHANGED <<isNativePlatform, downloadedModels, initializing,
                 analysisVars, scanVars, ocrVars, classifierVars>>

\* the download of call c fails: the catch block of translate returns the
\* text, that of ensureLanguageModel logs the error
DownloadModelRejects(c) ==
  /\ translations[c].pc = "downloading"
  /\ translations' =
       [translations EXCEPT ![c].pc = "done",
                            ![c].download = "failed",
                            ![c].returned = IF translations[c].kind = "translate"
                                            THEN OriginalText ELSE "undefined"]
  /\ UNCHANGED <<isNativePlatform, availableLanguages, downloadedModels, initializing,
                 analysisVars, scanVars, ocrVars, classifierVars>>

\* Translation.translate resolves: return result.text
TranslateResolves(c) ==
  /\ translations[c].pc = "translating"
  /\ translations' = [translations EXCEPT ![c].pc = "done", ![c].returned = TranslatedText]
  /\ UNCHANGED <<isNativePlatform, availableLanguages, downloadedModels, initializing,
                 analysisVars, scanVars, ocrVars, classifierVars>>

\* Translation.translate rejects: the catch block returns the text
TranslateRejects(c) ==
  /\ translations[c].pc = "translating"
  /\ translations' = [translations EXCEPT ![c].pc = "done", ![c].returned = OriginalText]
  /\ UNCHANGED <<isNativePlatform, availableLanguages, downloadedModels, initializing,
                 analysisVars, scanVars, ocrVars, classifierVars>>

TranslationNext ==
  \/ GetDownloadedModels
  \/ InitializeResolves
  \/ InitializeRejects
  \/ \E c \in TranslationCalls : Translate(c)
  \/ \E c \in TranslationCalls : EnsureLanguageModel(c)
  \/ \E c \in TranslationCalls : DownloadModelResolves(c)
  \/ \E c \in TranslationCalls : DownloadModelContinues(c)
  \/ \E c \in TranslationCalls : DownloadModelRejects(c)
  \/ \E c \in TranslationCalls : TranslateResolves(c)
  \/ \E c \in TranslationCalls : TranslateRejects(c)

\* the plug-in settles every promise it hands out and the continuation of a
\* settled await runs
TranslationSpec ==
  /\ TranslationInit
  /\ [][TranslationNext]_vars
  /\ \A c \in TranslationCalls :
       /\ WF_vars(DownloadModelResolves(c) \/ DownloadModelRejects(c))
       /\ WF_vars(DownloadModelContinues(c))
       /\ WF_vars(TranslateResolves(c) \/ TranslateRejects(c))
(***************************************************************************)
(* Properties of the analysis.                                             *)
(***************************************************************************)
Done == pc = "done"
Merged == Done /\ outcome.branch = "merged"
Degraded == Done /\ outcome.branch = "degraded"

RiskWeight(clause) ==
  IF clause.riskLevel = "high" THEN 30 ELSE IF clause.riskLevel = "medium" THEN 20 ELSE 10

\* the risk levels and confidences of a clause list, in order
RiskProfile(clauses) ==
  [i \in DOMAIN clauses |-> <<clauses[i].riskLevel, clauses[i].confidence>>]

HasHighRisk(clauses) == \E i \in DOMAIN clauses : clauses[i].riskLevel = "high"

HasCaution(summary) == \E i \in DOMAIN summary : summary[i] = CautionSentence

\* C1: when the reply of the remote service cannot be parsed, the analysis
\* fails and classifyWithAI reports what its degraded branch reports: the
\* clauses are exactly the local matches, without the local-detection
\* prefix, and the score is computed from them.
C1_UnparsableReplyDegrades ==
  (Done /\ reply.kind \in UnparsableKinds) =>
    /\ outcome.report.clauses = ClassifyText(Paragraphs(text), idSeed, 0)
    /\ outcome.report.overallRiskScore
         = CalculateOverallRiskScore(ClassifyText(Paragraphs(text), idSeed, 0))

\* C2: classifyWithAI never rejects: whatever the remote call does, it
\* resolves with a report that has clauses, overallRiskScore,
\* governmentCompliance and summary.
C2_NeverRejects ==
  Done =>
    /\ outcome.status = "resolved"
    /\ DOMAIN outcome.report
         = {"clauses", "overallRiskScore", "governmentCompliance", "summary"}
    /\ DOMAIN outcome.report.governmentCompliance
         = {"compliant", "violations", "recommendations"}
    /\ outcome.report.summary # << >>

C2_Witness ==
  /\ Done
  /\ reply.kind = "transport_error"
  /\ outcome.status = "resolved"
  /\ outcome.report.clauses # << >>

\* C3: in the remote-present branch the merged list is every remote clause,
\* unchanged and in order, followed by exactly the local matches that are
\* similar to no remote clause, in order, each with its reason prefixed by
\* '[Local Detection] '.
C3_MergeKeepsRemoteAppendsUnmatched ==
  Merged =>
    LET ai        == outcome.aiAnalysis.clauses
        local     == outcome.localResults
        merged    == outcome.report.clauses
        unmatched == {i \in DOMAIN local :
                        \A a \in DOMAIN ai : ~ AreSimilarClauses(ai[a].text, local[i].text)}
        Nth(k)    == CHOOSE i \in unmatched : Cardinality({j \in unmatched : j <= i}) = k
    IN  /\ Len(merged) = Len(ai) + Cardinality(unmatched)
        /\ \A a \in DOMAIN ai : merged[a] = ai[a]
        /\ \A k \in 1..Cardinality(unmatched) :
             /\ merged[Len(ai) + k].reason = <<LocalDetectionPrefix>> \o local[Nth(k)].reason
             /\ [merged[Len(ai) + k] EXCEPT !.reason = local[Nth(k)].reason] = local[Nth(k)]

C3_Witness ==
  /\ Merged
  /\ Len(outcome.aiAnalysis.clauses) = 2
  /\ Len(outcome.report.clauses) > Len(outcome.aiAnalysis.clauses)
  /\ Len(outcome.report.clauses) < Len(outcome.aiAnalysis.clauses) + Len(outcome.localResults)

\* C4: when the remote analysis succeeds, the report's overallRiskScore and
\* compliance block are exactly the values the remote service supplied, for
\* every supplied value, a score of 0 and compliant = false included.
C4_RemoteScoreAndComplianceVerbatim ==
  (Done /\ reply.kind = "json") =>
    LET analysis == reply.analysis
        gc       == analysis.governmentCompliance
    IN  /\ outcome.branch = "merged"
        /\ analysis.overallRiskScore # << >> =>
             outcome.report.overallRiskScore = analysis.overallRiskScore[1]
        /\ (gc # << >> /\ gc[1].compliant # << >>) =>
             outcome.report.governmentCompliance.compliant = gc[1].compliant[1]
        /\ (gc # << >> /\ gc[1].violations # << >>) =>
             outcome.report.governmentCompliance.violations = gc[1].violations[1]
        /\ (gc # << >> /\ gc[1].recommendations # << >>) =>
             outcome.report.governmentCompliance.recommendations = gc[1].recommendations[1]

\* C5: in the degraded branch overallRiskScore is the mean over the local
\* matches of w(riskLevel) * confidence (w: high 30, medium 20, low 10),
\* rounded to the nearest integer and capped at 100; it is 0 without local
\* matches, and 16 for the matches (high 0.9, medium 0.6, medium 0.5).
C5_DegradedScoreIsRoundedMean ==
  Degraded =>
    LET local == outcome.localResults
        n     == Len(local)
        total == SumSeq([i \in DOMAIN local |-> RiskWeight(local[i]) * local[i].confidence])
        score == outcome.report.overallRiskScore
    IN  /\ n = 0 => score = 0
        /\ n > 0 => \E r \in 0..31 :
                      /\ 2 * 1000 * n * r <= 2 * total + 1000 * n
                      /\ 2 * total + 1000 * n < 2 * 1000 * n * (r + 1)
                      /\ score = Min(r, 100)
        /\ RiskProfile(local) = << <<"high", 900>>, <<"medium", 600>>, <<"medium", 500>> >>
             => score = 16

C5_Witness ==
  /\ Degraded
  /\ RiskProfile(outcome.localResults)
       = << <<"high", 900>>, <<"medium", 600>>, <<"medium", 500>> >>
  /\ outcome.report.overallRiskScore = 16

\* C6: in the degraded branch the clauses are exactly the output of the local
\* classifier for the text, compliant is true, violations is empty and
\* recommendations is the single entry saying that automated analysis was
\* unavailable; without local matches overallRiskScore is 0.
C6_DegradedReport ==
  Degraded =>
    /\ outcome.report.clauses = ClassifyText(Paragraphs(text), idSeed, 0)
    /\ outcome.report.governmentCompliance.compliant = TRUE
    /\ outcome.report.governmentCompliance.violations = << >>
    /\ outcome.report.governmentCompliance.recommendations
         = <<"AI analysis unavailable - manual review recommended">>
    /\ outcome.report.clauses = << >> => outcome.report.overallRiskScore = 0

C6_Witness ==
  /\ Degraded
  /\ reply.kind = "service_error"
  /\ Len(outcome.report.clauses) = 2
  /\ Len(outcome.report.governmentCompliance.recommendations) = 1

\* C7: in the remote-present branch the summary of the report is the summary
\* of the remote report, unchanged, whatever the local matches are; a summary
\* supplied by the service is returned verbatim.
C7_RemoteSummaryUnchanged ==
  Merged =>
    /\ outcome.report.summary = outcome.aiAnalysis.summary
    /\ (reply.kind = "json" /\ reply.analysis.summary = <<"X">>) =>
         outcome.report.summary = <<"X">>

C7_Witness ==
  /\ Merged
  /\ reply.kind = "json"
  /\ reply.analysis.summary = <<"X">>
  /\ HasHighRisk(outcome.localResults)
  /\ outcome.report.summary = <<"X">>

\* C8 (as stated): in the degraded branch the summary contains the cautionary
\* sentence if and only if at least one local match has riskLevel high.
C8_DegradedSummaryCautions ==
  Degraded => (HasCaution(outcome.report.summary) <=> HasHighRisk(outcome.localResults))

\* C8 (amended): in the degraded branch the summary is synthesized from the
\* local matches: it states their total number and that AI analysis was
\* unavailable, and it never contains the cautionary sentence, also when a
\* local match has riskLevel high.
C8_DegradedSummaryCountsOnly ==
  Degraded =>
    /\ outcome.report.summary
         = << "Local analysis found ", ToString(Len(outcome.localResults)),
              " potential issues. AI analysis unavailable." >>
    /\ ~ HasCaution(outcome.report.summary)

C8_Witness ==
  /\ Degraded
  /\ HasHighRisk(outcome.localResults)
  /\ ~ HasCaution(outcome.report.summary)

\* C14: the remote analysis call is bounded: when the remote service never
\* replies, classifyWithAI still eventually returns a report, through the
\* degraded branch.
C14_RemoteCallBounded == (pc = "awaiting") ~> (pc = "done")

(***************************************************************************)
(* Properties of the scan.                                                 *)
(***************************************************************************)
PassesOf(page) == {k \in DOMAIN passes : passes[k].page = page}

\* C9: with a concrete requested language, processDocument runs exactly one
\* extraction pass per page, with that language code, and stores the result
\* of that pass as the result of the page; no detection and no second pass.
C9_ExplicitLanguageOnePass ==
  selectedLang # "auto" =>
    /\ francCalls = 0
    /\ \A k \in DOMAIN passes : passes[k].lang = selectedLang
    /\ \A j \in DOMAIN pages :
         /\ Cardinality(PassesOf(pages[j].image)) = 1
         /\ \A k \in PassesOf(pages[j].image) :
              pages[j].result = [pass |-> k, text |-> passes[k].text]

\* C10: in auto mode every page gets a baseline pass with 'eng' first; the
\* detected code is mapped through the table, unknown codes to the baseline;
\* a mapped profile other than the baseline gives exactly one more pass, with
\* the mapped profile, whose result is final; otherwise the first result is
\* final.  No page is extracted more than twice.
C10_AutoModeTwoPasses ==
  selectedLang = "auto" =>
    /\ \A k \in DOMAIN passes :
         /\ Cardinality(PassesOf(passes[k].page)) <= 2
         /\ (\A h \in PassesOf(passes[k].page) : k <= h) => passes[k].lang = "eng"
    /\ \A j \in DOMAIN pages :
         LET mine   == PassesOf(pages[j].image)
             first  == CHOOSE k \in mine : \A h \in mine : k <= h
             last   == CHOOSE k \in mine : \A h \in mine : k >= h
             code   == Franc(passes[first].text)
             mapped == IF code \in DOMAIN FrancToTess(scanPage)
                       THEN FrancToTess(scanPage)[code] ELSE "eng"
         IN  /\ mine # {}
             /\ pages[j].result = [pass |-> last, text |-> passes[last].text]
             /\ mapped = "eng" => first = last
             /\ mapped # "eng" => (first # last /\ passes[last].lang = mapped)


(***************************************************************************)
(* Properties of the progress reported during the scan and of the stored   *)
(* document.                                                               *)
(***************************************************************************)
\* C11: in auto mode the progress reported to the user never decreases from
\* one progress event to the next, across initialization, first pass and
\* second pass of every page.
C11_ProgressNeverDecreases ==
  selectedLang = "auto" =>
    \A k \in 1..(Len(progressEvents) - 1) :
      FractionLeq(progressEvents[k].value, progressEvents[k + 1].value)

\* C12: in auto mode, when a page gets two passes, no progress event of its
\* first pass exceeds 50% of the range of the page, and 100 is reported only
\* by the final pass of the last page.
C12_FirstPassStopsAtHalf ==
  selectedLang = "auto" =>
    \A k \in DOMAIN progressEvents :
      LET event == progressEvents[k]
          n     == Len(capturedImages)
      IN  /\ (scanPc = "pass2" /\ event.page = imageIndex /\ event.pass = 1) =>
               FractionLeq(event.value, Fraction(imageIndex * 100 + 50, n))
          /\ FractionLeq(Whole(100), event.value) =>
               /\ event.page = n - 1
               /\ event.pass # 0
               /\ ~ (scanPc = "pass2" /\ event.pass = 1)

\* C15: a document is stored only when every captured image has produced a
\* page entry; an image that is skipped for want of a file, or whose
\* extraction throws, ends in an error and never in a stored document
\* without that page.
C15_StoredDocumentHasEveryPage ==
  /\ scanPc = "stored" =>
       /\ scanError = "null"
       /\ \A i \in 0..(Len(capturedImages) - 1) :
            \E j \in DOMAIN pages : pages[j].image = i
  /\ (scanPc \in {"stored", "failed"}
      /\ \E i \in DOMAIN capturedImages : i <= imageIndex /\ capturedImages[i] = "native")
       => scanError # "null"

(***************************************************************************)
(* Properties of OCRService.                                               *)
(***************************************************************************)
Settled(c) == calls[c].pc \in {"resolved", "rejected"}

\* C13: every extraction pass is bounded: also when recognition or the
\* initialization of the worker never completes, extractText eventually
\* settles; it never waits forever.
C13_ExtractTextBounded ==
  \A c \in Calls : (calls[c].pc # "idle") ~> Settled(c)

(***************************************************************************)
(* Properties of classifyText, findMatchingRules and deduplicateResults.   *)
(***************************************************************************)
Classified == classifierPc # "idle"

\* the number of patterns / keywords of rule r that match the paragraph
PatternHits(r, paragraph) ==
  Cardinality({p \in 1..CLASSIFICATION_RULES[r].patterns :
                 <<r, "pattern", p>> \in RegexHits(paragraph)})

KeywordHits(r, paragraph) ==
  Cardinality({k \in 1..CLASSIFICATION_RULES[r].keywords :
                 <<r, "keyword", k>> \in RegexHits(paragraph)})

\* weight * 0.7 * patterns + weight * 0.3 * keywords, in thousandths
RuleScore(r, paragraph) ==
  (CLASSIFICATION_RULES[r].weightedScore * 7 * PatternHits(r, paragraph)
   + CLASSIFICATION_RULES[r].weightedScore * 3 * KeywordHits(r, paragraph)) \div 10

\* the candidates classifyText built for paragraph number i and rule r
CandidatesOf(i, r) ==
  {k \in DOMAIN results :
     /\ results[k].position.y = (i - 1) * 50
     /\ results[k].type = CLASSIFICATION_RULES[r].type
     /\ results[k].riskLevel = CLASSIFICATION_RULES[r].riskLevel}

\* C16: for every paragraph and rule the score is weight*0.7*patterns +
\* weight*0.3*keywords; the rule gives a candidate if and only if something
\* matched and the score exceeds 0.2; the confidence of the candidate is
\* min(score, 1) and so lies in (0.2, 1].
C16_ScoreThresholdAndCap ==
  Classified =>
    \A i \in DOMAIN paragraphs : \A r \in DOMAIN CLASSIFICATION_RULES :
      LET score   == RuleScore(r, paragraphs[i])
          matched == PatternHits(r, paragraphs[i]) + KeywordHits(r, paragraphs[i])
      IN  /\ Cardinality(CandidatesOf(i, r)) = (IF matched > 0 /\ score > 200 THEN 1 ELSE 0)
          /\ \A k \in CandidatesOf(i, r) :
               /\ results[k].confidence = (IF score < 1000 THEN score ELSE 1000)
               /\ results[k].confidence > 200
               /\ results[k].confidence <= 1000
               /\ results[k].text = paragraphs[i]

\* a keyword hit that stays under the threshold next to hits that pass the cap
C16_Witness ==
  /\ Classified
  /\ paragraphs = <<LineK, LineM>>
  /\ KeywordHits(6, LineK) = 1
  /\ CandidatesOf(1, 6) = {}
  /\ RuleScore(1, LineM) > 1000
  /\ \E k \in CandidatesOf(2, 1) : results[k].confidence = 1000

\* (clause type, first 50 characters of the text)
KeyOf(match) ==
  <<match.type, SubSeq(match.text, 1, IF Len(match.text) < 50 THEN Len(match.text) ELSE 50)>>

\* C17: no two matches of the output of classifyText share the key (clause
\* type, first 50 characters of text); every candidate is represented by a
\* kept match of the same key whose confidence is at least its own; the
\* output holds only candidates.
C17_OneMatchPerKey ==
  Classified =>
    /\ \A a, b \in DOMAIN classified : KeyOf(classified[a]) = KeyOf(classified[b]) => a = b
    /\ \A k \in DOMAIN results :
         \E a \in DOMAIN classified :
           /\ KeyOf(classified[a]) = KeyOf(results[k])
           /\ classified[a].confidence >= results[k].confidence
    /\ \A a \in DOMAIN classified : \E k \in DOMAIN results : classified[a] = results[k]

\* two paragraphs with the same first 50 characters that match the same rule,
\* the weaker one first
C17_Witness ==
  /\ Classified
  /\ paragraphs = <<LineB, LineA>>
  /\ SubSeq(LineA, 1, 50) = SubSeq(LineB, 1, 50)
  /\ LineA # LineB
  /\ Len(results) = 3
  /\ Len(classified) = 1
  /\ classified[1].text = LineA
  /\ classified[1].confidence = 900

\* C18: deduplicateResults applied to its own output returns the same matches
\* in the same order.
C18_DeduplicationIdempotent ==
  classifierPc = "deduplicatedAgain" => deduplicatedAgain = classified

\* an output with two matches of equal confidence and one dropped candidate
C18_Witness ==
  /\ classifierPc = "deduplicatedAgain"
  /\ paragraphs = <<LineS, LineB>>
  /\ Len(results) = 3
  /\ Len(classified) = 2
  /\ classified[1].confidence = classified[2].confidence
  /\ deduplicatedAgain = classified

\* C19: two calls of classifyText with the same paragraph list return
\* identical outputs, every field of every match included.
C19_ClassifyTextDeterministic ==
  classifierPc = "classifiedAgain" => classifiedAgain = classified

\* C20: every clause of every report the analysis returns has a riskLevel of
\* low, medium or high, whatever the remote service put in its reply.
C20_RiskLevelInEnum ==
  Done =>
    \A k \in DOMAIN outcome.report.clauses :
      outcome.report.clauses[k].riskLevel \in {"low", "medium", "high"}

(***************************************************************************)
(* Further properties of the report of classifyWithAI.                     *)
(***************************************************************************)
\* C21: every report the analysis returns has an overallRiskScore that is an
\* integer in [0, 100], in both branches and for every reply of the remote
\* service.
C21_ScoreInRange ==
  Done => outcome.report.overallRiskScore \in 0..100

\* C22: every clause of the report of classifyWithAI, remote or local, has a
\* text that is a substring of some paragraph of the analysed document.
C22_ClauseTextFromDocument ==
  (Done /\ Paragraphs(text) # << >>) =>
    \A k \in DOMAIN outcome.report.clauses :
      \E p \in DOMAIN Paragraphs(text) :
        Includes(Paragraphs(text)[p], outcome.report.clauses[k].text)

HasLocalDetectionPrefix(clause) ==
  clause.reason # << >> /\ clause.reason[1] = LocalDetectionPrefix

\* the number of clauses in the reply of the remote service
RemoteClauseCount ==
  IF reply.kind = "json" /\ reply.analysis.problematicClauses # << >>
  THEN Len(reply.analysis.problematicClauses[1]) ELSE 0

C30_EmptyRemoteTextDropsNothing ==
  Merged =>
    \A i \in DOMAIN outcome.localResults :
      (\A k \in DOMAIN outcome.report.clauses :
         outcome.report.clauses[k].id # outcome.localResults[i].id)
      => \E a \in DOMAIN outcome.aiAnalysis.clauses :
           /\ Len(Trim(outcome.aiAnalysis.clauses[a].text)) > 0
           /\ AreSimilarClauses(outcome.aiAnalysis.clauses[a].text,
                                outcome.localResults[i].text)

(***************************************************************************)
(* Detection on a short baseline text.                                     *)
(***************************************************************************)
FirstPassOf(page) == CHOOSE k \in PassesOf(page) : \A h \in PassesOf(page) : k <= h

ShortText(textValue) == textValue.length < FrancMinLength

\* C23: in auto mode, when the text the baseline pass returns is shorter than
\* 10 characters (empty included), detection yields no language, the mapped
\* profile is the baseline, no second pass is run for the page, and the
\* baseline result is stored as the result of the page without an error.
C23_ShortTextKeepsBaseline ==
  selectedLang = "auto" =>
    /\ \A j \in DOMAIN pages :
         LET first == FirstPassOf(pages[j].image)
         IN  ShortText(passes[first].text) =>
               /\ Franc(passes[first].text) = "und"
               /\ MapDetected(scanPage, Franc(passes[first].text)) = "eng"
               /\ PassesOf(pages[j].image) = {first}
               /\ pages[j].result = [pass |-> first, text |-> passes[first].text]
    /\ scanPc = "pass2" =>
         ~ ShortText(passes[FirstPassOf(imageIndex)].text)
    /\ (/\ ocrResult.pass # 0
        /\ ocrResult.pass = Len(passes)
        /\ ocrResult.pass = FirstPassOf(passes[ocrResult.pass].page)
        /\ ShortText(ocrResult.text)) =>
         /\ detectedLang = "eng"
         /\ scanPc \in {"loop", "stored"}
         /\ scanError = "null"

C23_Witness ==
  /\ selectedLang = "auto"
  /\ scanPc = "stored"
  /\ \E j \in DOMAIN pages :
       /\ pages[j].result.text = [length |-> 4, code |-> "hin"]
       /\ PassesOf(pages[j].image) = {pages[j].result.pass}
  /\ \E j \in DOMAIN pages : pages[j].result.text.length = 0

(***************************************************************************)
(* classifyText and the order of its input.                                *)
(***************************************************************************)
\* a match without its id and its position
Finding(result) ==
  <<result.type, result.riskLevel, result.confidence, result.text>>

Findings(list) == {Finding(list[k]) : k \in DOMAIN list}

\* C24: classifyText is order-insensitive: for every permutation of the
\* paragraph list the set of returned matches, compared by type, riskLevel,
\* confidence and text and ignoring id and position, is the same.
C24_ClassifyTextOrderInsensitive ==
  classifierPc = "classifiedPermuted" =>
    Findings(classifiedPermuted) = Findings(classified)

(***************************************************************************)
(* Deduplication and the risk level of the match it keeps.                 *)
(***************************************************************************)
RiskRank(level) == IF level = "high" THEN 3 ELSE IF level = "medium" THEN 2 ELSE 1

\* the matches classifyText returns for the key of the candidate
KeptFor(candidate) ==
  {a \in DOMAIN classified : KeyOf(classified[a]) = KeyOf(candidate)}

\* the paragraphs that gave a high-risk and a medium-risk candidate of one type
BothLevels ==
  {pair \in (DOMAIN results) \X (DOMAIN results) :
     /\ results[pair[1]].position.y = results[pair[2]].position.y
     /\ results[pair[1]].type = results[pair[2]].type
     /\ results[pair[1]].riskLevel = "high"
     /\ results[pair[2]].riskLevel = "medium"}

\* C29 as stated: a paragraph that matches the high-risk and the medium-risk
\* rule of one clause type keeps the high-risk match; deduplication never
\* discards a higher-risk finding in favour of a lower-risk finding with the
\* same (type, first 50 characters) key.
C29_HighRiskKept ==
  Classified =>
    \A k \in DOMAIN results : \A a \in KeptFor(results[k]) :
      RiskRank(classified[a].riskLevel) >= RiskRank(results[k].riskLevel)

\* C29 as amended: the match kept for the key of such a paragraph is one of
\* the highest confidence among the candidates of the key, whatever its risk
\* level; when it is a match of that paragraph it is the medium-risk one if
\* the medium-risk rule scored higher and the high-risk one otherwise.
C29_HigherConfidenceKept ==
  Classified =>
    \A pair \in BothLevels :
      LET high   == results[pair[1]]
          medium == results[pair[2]]
      IN  /\ Cardinality(KeptFor(high)) = 1
          /\ \A a \in KeptFor(high) :
               /\ \A k \in DOMAIN results :
                    KeyOf(results[k]) = KeyOf(high) =>
                      classified[a].confidence >= results[k].confidence
               /\ classified[a].text = high.text =>
                    classified[a].riskLevel =
                      (IF medium.confidence > high.confidence THEN "medium" ELSE "high")

\* a paragraph whose medium-risk match outscores its high-risk match next to
\* one whose two matches both reach the cap
C29_Witness ==
  /\ Classified
  /\ paragraphs = <<LineH, LineT>>
  /\ Cardinality(BothLevels) = 2
  /\ Len(results) = 4
  /\ Len(classified) = 2
  /\ \E a \in DOMAIN classified :
       /\ classified[a].text = LineH
       /\ classified[a].riskLevel = "medium"
       /\ classified[a].confidence = 420
  /\ \E a \in DOMAIN classified :
       /\ classified[a].text = LineT
       /\ classified[a].riskLevel = "high"
       /\ classified[a].confidence = 1000

(***************************************************************************)
(* The cache of downloaded translation models under concurrent calls.      *)
(***************************************************************************)
TargetOf(c) == GetMLKitLanguage(translations[c].target)

\* a language is in the cache only if its model is on the device; a call
\* that is past its successful download finds its language in the cache; a
\* call whose download failed has returned, translate with the text
CacheSound ==
  /\ availableLanguages \subseteq downloadedModels
  /\ \A c \in TranslationCalls :
       /\ (translations[c].download = "ok" /\ translations[c].pc \in {"translating", "done"})
            => TargetOf(c) \in availableLanguages
       /\ translations[c].download = "failed" =>
            /\ translations[c].pc = "done"
            /\ translations[c].kind = "translate" => translations[c].returned = OriginalText

\* a download is issued only for a language that is not in the cache, a
\* failing download leaves the cache as it is, and the cache never shrinks
CacheStep ==
  /\ availableLanguages \subseteq availableLanguages'
  /\ \A c \in TranslationCalls :
       /\ (translations[c].pc = "idle" /\ translations'[c].pc = "downloading")
            => GetMLKitLanguage(translations'[c].target) \notin availableLanguages
       /\ (translations[c].download # "failed" /\ translations'[c].download = "failed")
            => availableLanguages' = availableLanguages

\* C26: the cache of available models is safe under concurrent use: for any
\* interleaving of translate / ensureLanguageModel calls every call completes,
\* the language is in the cache after a successful download, it is in the
\* cache only if a download of it succeeded or it was reported as downloaded,
\* once it is in the cache no later call downloads it again, and a failed
\* download leaves the cache unchanged and makes translate return the text.
C26_CacheSafeUnderConcurrency ==
  /\ [] CacheSound
  /\ [][CacheStep]_vars
  /\ \A c \in TranslationCalls :
       (translations[c].pc # "idle") ~> (translations[c].pc = "done")

\* two overlapping calls for one language that both downloaded the model
C26_Witness ==
  /\ translations[1].target = translations[2].target
  /\ translations[1].kind = "translate"
  /\ translations[2].kind = "ensure"
  /\ translations[1].download = "ok"
  /\ translations[2].download = "ok"
  /\ translations[1].pc = "done"
  /\ translations[2].pc = "done"
  /\ translations[1].returned = TranslatedText
  /\ TargetOf(1) \in availableLanguages

(***************************************************************************)
(* OCRService: overlapping calls and recovery.                             *)
(***************************************************************************)
LiveWorkers == {w \in WorkerIds : workers[w].status = "live"}

\* C27: for any interleaving of overlapping extractText calls and
\* error-handler callbacks a worker is never terminated or replaced while a
\* recognize call issued on it is in flight, at most one worker that has not
\* been terminated exists at any time, and every call that completes returns
\* text recognized by a worker created for the language it requested.
C27_WorkerNotSharedAcrossCalls ==
  /\ \A c \in Calls :
       /\ calls[c].pc = "racing" =>
            /\ workers[calls[c].on].status = "live"
            /\ worker = calls[c].on
       /\ calls[c].pc = "resolved" => workers[calls[c].on].lang = calls[c].lang
  /\ Cardinality(LiveWorkers) <= 1

\* the worker of the service is null or a live worker of currentLang
WorkerUsable ==
  worker # NoWorker =>
    /\ workers[worker].status = "live"
    /\ workers[worker].lang = currentLang
    /\ isInitialized

\* what one step of a call may do: recognize is issued on a live worker of
\* the requested language, a call that finds no usable worker of its
\* language goes on to create one, initialize never leaves extractText
\* without a worker, and the early return of initialize creates nothing
RecoveryStep ==
  \A c \in Calls :
    /\ (calls[c].pc # "racing" /\ calls'[c].pc = "racing") =>
         /\ calls'[c].on = worker
         /\ worker # NoWorker
         /\ workers[worker].status = "live"
         /\ workers[worker].lang = calls[c].lang
    /\ calls'[c].error # "OCR worker not initialized"
    /\ (calls[c].pc = "idle" /\ calls'[c].pc \in {"initialized", "returned"}) =>
         /\ worker # NoWorker
         /\ workers[worker].status = "live"
         /\ workers[worker].lang = calls'[c].lang
         /\ workers' = workers
         /\ worker' = worker
    /\ (calls[c].pc = "idle" /\ calls'[c].pc # "idle"
        /\ (worker = NoWorker \/ currentLang # calls'[c].lang)) =>
         calls'[c].pc \in {"creating", "switching", "initializeCreating",
                           "initializeSwitching"}
    /\ (calls[c].pc \in {"creating", "initializeCreating"}
        /\ calls'[c].pc \in {"initialized", "returned"}) =>
         /\ workers[worker'].status = "none"
         /\ workers'[worker'] = [lang |-> calls[c].lang, status |-> "live"]

\* C28: the service recovers from every failure: after any sequence of
\* initialize, extractText and terminate calls in which a call failed or
\* terminate was called, the next extractText creates a fresh worker for the
\* requested language before it recognizes and never calls recognize on a
\* null or terminated worker; initialize with the language of a live
\* initialized worker creates no new worker.
C28_RecoversAfterFailure ==
  /\ [](Quiet => WorkerUsable)
  /\ [][RecoveryStep]_vars

\* after a timeout on the first worker a call for the same language is
\* recognizing on a second worker
C28_Witness ==
  /\ workers[1].status = "terminated"
  /\ workers[2].status = "live"
  /\ workers[1].lang = workers[2].lang
  /\ \E c \in Calls :
       /\ calls[c].pc = "racing"
       /\ calls[c].on = 2
       /\ calls[c].lang = workers[2].lang
====
